---- MODULE Spec2Model ----
(***************************************************************************)
(* restpp: the synchronous fetch call (fetch.hpp) with the uri and options *)
(* values it consumes.  Byte strings are sequences of one-character        *)
(* strings, so that every scan, split and comparison of the C++ code is    *)
(* computed here the way the code computes it.                             *)
(***************************************************************************)
EXTENDS Integers, Sequences, FiniteSets, TLC

(***************************************************************************)
(* Bounds of the model.                                                    *)
(***************************************************************************)
\* header insertions the caller performs on a default-constructed options
MaxInserts == 2
\* bytes the peer sends after the body a Content-Length header announces
MaxExtra == 2

(***************************************************************************)
(* Characters and text.                                                    *)
(***************************************************************************)
\* the printable ASCII characters in code order, 0x20 .. 0x7E (the slot of
\* 0x60, which no text of the model uses, holds a placeholder)
Printable ==
    <<" ", "!", "\"", "#", "$", "%", "&", "'", "(", ")", "*", "+", ",", "-", ".", "/",
      "0", "1", "2", "3", "4", "5", "6", "7", "8", "9", ":", ";", "<", "=", ">", "?",
      "@", "A", "B", "C", "D", "E", "F", "G", "H", "I", "J", "K", "L", "M", "N", "O",
      "P", "Q", "R", "S", "T", "U", "V", "W", "X", "Y", "Z", "[", "\\", "]", "^", "_",
      "(grave)", "a", "b", "c", "d", "e", "f", "g", "h", "i", "j", "k", "l", "m", "n", "o",
      "p", "q", "r", "s", "t", "u", "v", "w", "x", "y", "z", "{", "|", "}", "~">>

\* the byte value of a character: what std::string's operator< compares
Ascii(c) ==
    CASE c = "\t" -> 9
      [] c = "\n" -> 10
      [] c = "\r" -> 13
      [] OTHER -> 31 + (CHOOSE i \in 1..Len(Printable) : Printable[i] = c)

Digits == <<"0", "1", "2", "3", "4", "5", "6", "7", "8", "9">>

\* the characters isdigit accepts in the classic locale
DigitChars == {Digits[i] : i \in 1..Len(Digits)}

DigitVal(c) == (CHOOSE i \in 1..Len(Digits) : Digits[i] = c) - 1

\* the characters isspace accepts in the classic locale: what operator>> skips
SpaceChars == {" ", "\t", "\n", "\r"}

\* s without its first n characters
Drop(s, n) == SubSeq(s, n + 1, Len(s))

\* the first n characters of s
Take(s, n) == SubSeq(s, 1, n)

\* whether pat occurs in s at 0-based offset i
MatchAt(s, pat, i) ==
    /\ i + Len(pat) <= Len(s)
    /\ \A j \in 1..Len(pat) : s[i + j] = pat[j]

\* std::string::npos
NPOS == -1

\* std::string::find(pat, from): the first 0-based offset >= from where pat
\* occurs, npos when there is none
Find(s, pat, from) ==
    LET hits == {i \in from..Len(s) : MatchAt(s, pat, i)}
    IN  IF hits = {} THEN NPOS ELSE CHOOSE i \in hits : \A j \in hits : i <= j

\* std::string::substr(pos, count) for pos <= size(); count npos (or any count
\* reaching past the end) takes the rest of the string
Substr(s, pos, count) ==
    IF count = NPOS \/ pos + count >= Len(s)
    THEN SubSeq(s, pos + 1, Len(s))
    ELSE SubSeq(s, pos + 1, pos + count)

\* lexicographic operator< of std::string, the order of std::map's keys
RECURSIVE StrLess(_, _)
StrLess(a, b) ==
    IF b = <<>> THEN FALSE
    ELSE IF a = <<>> THEN TRUE
    ELSE IF Ascii(Head(a)) # Ascii(Head(b)) THEN Ascii(Head(a)) < Ascii(Head(b))
    ELSE StrLess(Tail(a), Tail(b))

\* the decimal value of a run of digits
RECURSIVE DecVal(_)
DecVal(ds) ==
    IF ds = <<>> THEN 0 ELSE 10 * DecVal(Take(ds, Len(ds) - 1)) + DigitVal(ds[Len(ds)])

\* the length of the longest prefix of s made of characters of cs
SpanLen(s, cs) ==
    LET stops == {i \in 1..Len(s) : s[i] \notin cs}
    IN  IF stops = {} THEN Len(s) ELSE (CHOOSE i \in stops : \A j \in stops : i <= j) - 1

\* std::atoi: optional white space, optional sign, then the leading digits;
\* 0 when there are none
Atoi(s) ==
    LET t    == Drop(s, SpanLen(s, SpaceChars))
        neg  == t # <<>> /\ Head(t) = "-"
        u    == IF t # <<>> /\ Head(t) \in {"+", "-"} THEN Tail(t) ELSE t
        v    == DecVal(Take(u, SpanLen(u, DigitChars)))
    IN  IF neg THEN 0 - v ELSE v

\* std::to_string of an int that is not negative
RECURSIVE to_string(_)
to_string(n) ==
    IF n < 10 THEN <<Digits[n + 1]>> ELSE to_string(n \div 10) \o <<Digits[(n % 10) + 1]>>

(***************************************************************************)
(* uri: the class fetch takes its target from (its port() is an int).      *)
(***************************************************************************)
CRLF == <<"\r", "\n">>

\* uri::parse(): "very basic URI parsing" of _url into _components.  In the
\* code scheme_end + 3 is computed in size_t, so that npos + 3 is 2.
parse(_url) ==
    LET scheme_end == Find(_url, <<":", "/", "/">>, 0)
        _scheme    == Substr(_url, 0, scheme_end)
        host_start == IF scheme_end = NPOS THEN 2 ELSE scheme_end + 3
        path_start == Find(_url, <<"/">>, host_start)
        host_port  == Substr(_url, host_start,
                             IF path_start = NPOS THEN NPOS ELSE path_start - host_start)
        port_pos   == Find(host_port, <<":">>, 0)
    IN  [scheme |-> _scheme,
         host   |-> IF port_pos # NPOS THEN Substr(host_port, 0, port_pos) ELSE host_port,
         port   |-> IF port_pos # NPOS
                    THEN Atoi(Substr(host_port, port_pos + 1, NPOS))
                    ELSE IF _scheme = <<"h", "t", "t", "p", "s">> THEN 443 ELSE 80,
         path   |-> IF path_start = NPOS THEN <<"/">> ELSE Substr(_url, path_start, NPOS)]

\* whether uri's constructor builds a value from _url: it throws on the empty
\* string, and substr throws std::out_of_range when host_start is past the end
uri_constructs(_url) ==
    /\ Len(_url) # 0
    /\ (IF Find(_url, <<":", "/", "/">>, 0) = NPOS
        THEN 2 ELSE Find(_url, <<":", "/", "/">>, 0) + 3) <= Len(_url)

(***************************************************************************)
(* options: method and the std::map of headers.                            *)
(***************************************************************************)
\* options::options()
default_options ==
    [method  |-> <<"G", "E", "T">>,
     headers |-> (<<"U", "s", "e", "r", "-", "A", "g", "e", "n", "t">> :>
                  <<"r", "e", "s", "t", "p", "p", ".", "i", "o", " ", "c", "l", "i", "e", "n", "t">>)]

\* std::map::insert: a key already present keeps its value
map_insert(m, k, v) == IF k \in DOMAIN m THEN m ELSE (k :> v) @@ m

\* the least key of a non-empty set of keys in std::map's order
MinKey(keys) == CHOOSE k \in keys : \A j \in keys \ {k} : StrLess(k, j)

\* the keys of a std::map in iteration order
RECURSIVE map_order(_)
map_order(keys) ==
    IF keys = {} THEN <<>>
    ELSE <<MinKey(keys)>> \o map_order(keys \ {MinKey(keys)})

\* one "key: value\r\n" line per name of the sequence order
RECURSIVE header_lines(_, _)
header_lines(m, order) ==
    IF order = <<>> THEN <<>>
    ELSE Head(order) \o <<":", " ">> \o m[Head(order)] \o CRLF
         \o header_lines(m, Tail(order))

\* the request fetch forms in request_stream
form_request(_path, _options) ==
    _options.method \o <<" ">> \o _path.path
        \o <<" ", "H", "T", "T", "P", "/", "1", ".", "1", "\r", "\n">>
    \o <<"H", "o", "s", "t", ":", " ">> \o _path.host \o CRLF
    \o <<"C", "o", "n", "n", "e", "c", "t", "i", "o", "n", ":", " ",
         "c", "l", "o", "s", "e", "\r", "\n">>
    \o header_lines(_options.headers, map_order(DOMAIN _options.headers))
    \o CRLF

(***************************************************************************)
(* std::istream over the streambuf.  A stream is [buf, eof, fail]: the     *)
(* characters not yet extracted and the eofbit and failbit.  Every         *)
(* extraction returns [st, val].                                           *)
(***************************************************************************)
good(st) == ~st.eof /\ ~st.fail

\* operator>>(std::string&): skips white space, then takes the characters up
\* to the next white space; failbit when none is left to take
extract_string(st) ==
    LET rest == Drop(st.buf, SpanLen(st.buf, SpaceChars))
        stops == {i \in 1..Len(rest) : rest[i] \in SpaceChars}
        n    == IF stops = {} THEN Len(rest)
                ELSE (CHOOSE i \in stops : \A j \in stops : i <= j) - 1
    IN  IF ~good(st) THEN [st |-> [st EXCEPT !.fail = TRUE], val |-> <<>>]
        ELSE IF rest = <<>>
        THEN [st |-> [buf |-> <<>>, eof |-> TRUE, fail |-> TRUE], val |-> <<>>]
        ELSE [st |-> [buf |-> Drop(rest, n), eof |-> n = Len(rest), fail |-> FALSE],
              val |-> Take(rest, n)]

\* operator>>(unsigned int&) followed by static_cast<int>: skips white space,
\* takes an optional sign and the digits after it; failbit when there is no
\* digit.  A run of ten or more digits is taken as out of range (failbit).
extract_unsigned(st) ==
    LET rest == Drop(st.buf, SpanLen(st.buf, SpaceChars))
        sign == rest # <<>> /\ Head(rest) \in {"+", "-"}
        num  == IF sign THEN Tail(rest) ELSE rest
        n    == SpanLen(num, DigitChars)
        v    == IF n = 0 \/ n > 9 THEN 0 ELSE DecVal(Take(num, n))
    IN  IF ~good(st) THEN [st |-> [st EXCEPT !.fail = TRUE], val |-> 0]
        ELSE IF rest = <<>>
        THEN [st |-> [buf |-> <<>>, eof |-> TRUE, fail |-> TRUE], val |-> 0]
        ELSE [st |-> [buf |-> Drop(num, n), eof |-> n = Len(num),
                      fail |-> n = 0 \/ n > 9],
              val |-> IF sign /\ Head(rest) = "-" THEN 0 - v ELSE v]

\* std::getline(stream, line): takes the characters up to '\n', which it
\* drops, or up to the end of the buffer (eofbit); failbit when it took nothing
getline(st) ==
    LET nl == Find(st.buf, <<"\n">>, 0)
    IN  IF ~good(st) THEN [st |-> [st EXCEPT !.fail = TRUE], val |-> <<>>]
        ELSE IF st.buf = <<>>
        THEN [st |-> [buf |-> <<>>, eof |-> TRUE, fail |-> TRUE], val |-> <<>>]
        ELSE IF nl = NPOS
        THEN [st |-> [buf |-> <<>>, eof |-> TRUE, fail |-> FALSE], val |-> st.buf]
        ELSE [st |-> [buf |-> Drop(st.buf, nl + 1), eof |-> FALSE, fail |-> FALSE],
              val |-> Take(st.buf, nl)]

\* fetch's parse of the status line: http_version, status_code, status_message,
\* and the test that throws "Invalid response"
parse_status_line(buf) ==
    LET r1 == extract_string([buf |-> buf, eof |-> FALSE, fail |-> FALSE])
        r2 == extract_unsigned(r1.st)
        r3 == getline(r2.st)
    IN  [invalid     |-> r3.st.fail \/ Take(r1.val, 5) # <<"H", "T", "T", "P", "/">>,
         status_code |-> r2.val,
         st          |-> r3.st]

\* fetch's header loop: every line up to the line "\r", or up to the end of
\* what the buffer holds, each followed by "\n"
RECURSIVE read_headers(_, _)
read_headers(st, acc) ==
    LET r == getline(st)
    IN  IF r.st.fail \/ r.val = <<"\r">>
        THEN [st |-> r.st, headers |-> acc]
        ELSE read_headers(r.st, acc \o r.val \o <<"\n">>)

(***************************************************************************)
(* Exceptions: [type, what].                                               *)
(***************************************************************************)
\* boost::system::system_error::what(): the location asio's throw_error
\* gives, then the message of the error code
system_error(location, message) ==
    [type |-> "boost::system::system_error",
     what |-> IF location = <<>> THEN message ELSE location \o <<":", " ">> \o message]

runtime_error(message) == [type |-> "std::runtime_error", what |-> message]

\* the classes an exception of each type is an instance of
bases(type) ==
    CASE type = "boost::system::system_error" ->
             {"boost::system::system_error", "std::runtime_error", "std::exception"}
      [] type = "std::runtime_error" -> {"std::runtime_error", "std::exception"}
      [] OTHER -> {type}

\* a handler for boost's errors only, which lets std::runtime_error through
catches_system_error_only(type) == "boost::system::system_error" \in bases(type)

\* fetch's handler: catch (const std::exception& e)
catches(type) == "std::exception" \in bases(type)


(***************************************************************************)
(* The inputs of a call: the uri and options the caller built, and what    *)
(* the peer sends once the request is written.                             *)
(***************************************************************************)
URLs ==
    {<<"h", "t", "t", "p", ":", "/", "/", "h", "/", "p">>,
     <<"h", "t", "t", "p", ":", "/", "/", "h", "/", "p", "?", "q", "#", "f">>,
     <<"h", "t", "t", "p", ":", "/", "/", "h">>,
     <<"h", "t", "t", "p", "s", ":", "/", "/", "h", ":", "8", "/", "a">>,
     <<"h", "/", "p">>}

Methods == {<<"G", "E", "T">>, <<"P", "O", "S", "T">>}

\* the headers a caller adds to the default ones: <<name, value>>
HeaderPool ==
    {<<<<"A", "c", "c", "e", "p", "t">>, <<"*", "/", "*">>>>,
     <<<<"X", "-", "I", "d">>, <<"7">>>>}

\* the sequences of at most MaxInserts insertions
InsertSeqs == UNION {[1..n -> HeaderPool] : n \in 0..MaxInserts}

\* the options value after the caller's insertions ins, and the names in the
\* order their entries were created
RECURSIVE with_inserts(_, _, _)
with_inserts(opt, order, ins) ==
    IF ins = <<>> THEN [options |-> opt, order |-> order]
    ELSE with_inserts(
             [opt EXCEPT !.headers = map_insert(opt.headers, Head(ins)[1], Head(ins)[2])],
             IF Head(ins)[1] \in DOMAIN opt.headers THEN order
             ELSE Append(order, Head(ins)[1]),
             Tail(ins))

StatusOK == <<"H", "T", "T", "P", "/", "1", ".", "1", " ", "2", "0", "0", " ", "O", "K", "\r", "\n">>

Status500 == <<"H", "T", "T", "P", "/", "1", ".", "1", " ", "5", "0", "0", " ", "E", "\r", "\n">>

\* status lines a conforming client rejects
BadStatusLines ==
    {<<"H", "T", "P", "/", "1", ".", "1", " ", "2", "0", "0", " ", "O", "K", "\r", "\n">>,
     <<"H", "T", "T", "P", "/", "1", ".", "1", " ", "2", "x", "x", "\r", "\n">>,
     <<"H", "T", "T", "P", "/", "1", ".", "1", " ", "a", "b", "c", "\r", "\n">>,
     <<"H", "T", "T", "P", "/", "1", ".", "1", "\r", "\n">>}

HeaderAB == <<"A", ":", " ", "b", "\r", "\n">>

ContentLength2 ==
    <<"C", "o", "n", "t", "e", "n", "t", "-", "L", "e", "n", "g", "t", "h", ":", " ",
      "2", "\r", "\n">>

TransferChunked ==
    <<"T", "r", "a", "n", "s", "f", "e", "r", "-", "E", "n", "c", "o", "d", "i", "n", "g",
      ":", " ", "c", "h", "u", "n", "k", "e", "d", "\r", "\n">>

ChunkedBody == <<"2", "\r", "\n", "h", "i", "\r", "\n", "0", "\r", "\n", "\r", "\n">>

\* what a peer sends before it closes: the status line, the header lines, the
\* empty line and the body
Peers ==
    {[status |-> StatusOK, fields |-> f, blank |-> CRLF, body |-> b] :
        f \in {<<>>, HeaderAB}, b \in {<<>>, <<"h", "i">>}}
    \cup {[status |-> StatusOK, fields |-> ContentLength2, blank |-> CRLF,
           body |-> <<"h", "i">> \o [i \in 1..n |-> "X"]] : n \in 0..MaxExtra}
    \cup {[status |-> StatusOK, fields |-> TransferChunked, blank |-> CRLF,
           body |-> ChunkedBody]}
    \cup {[status |-> sl, fields |-> <<>>, blank |-> CRLF, body |-> <<"h", "i">>] :
            sl \in BadStatusLines}
    \cup {[status |-> Status500, fields |-> <<>>, blank |-> CRLF,
           body |-> <<"I", "n", "v", "a", "l", "i", "d", " ", "r", "e", "s", "p", "o", "n",
                      "s", "e">>]}
    \cup {[status |-> sl, fields |-> <<>>, blank |-> <<>>, body |-> <<>>] :
            sl \in {<<>>, <<"H", "T", "T", "P">>}}

\* the bytes of a peer, in the order sent
stream(p) == p.status \o p.fields \o p.blank \o p.body

DefaultURL == <<"h", "t", "t", "p", ":", "/", "/", "h", "/", "p">>

DefaultPeer == [status |-> StatusOK, fields |-> HeaderAB, blank |-> CRLF, body |-> <<"h", "i">>]

(***************************************************************************)
(* One call of fetch(uri _path, options _options).                         *)
(***************************************************************************)
VARIABLES
    url,              \* the string the caller built the uri from
    path_uri,         \* the parameter _path: the uri's components
    options,          \* the parameter _options
    inserted,         \* the header names in the order the caller created them
    peer,             \* what the peer sends in answer
    wire,             \* the bytes of the peer the socket has not delivered yet
    pc,               \* the phase of the call
    hist,             \* the phases the call has been in, oldest first
    socket,           \* "unconstructed", "closed" or "open"
    sockets,          \* how many sockets the call has constructed
    written,          \* the bytes written to the socket
    response_buffer,  \* the streambuf: its characters not yet extracted
    stream_state,     \* response_stream's [eof, fail]
    status_code,
    headers,
    body,
    result            \* <<>> until the call returns, then <<the response>>

\* the state of what runs beside this one call: concurrent calls of fetch
\* (threads, frames) and a uri value under construction and assignment
VARIABLES
    threads,          \* per concurrent call: its phase, its connection, its return
    frames,           \* per stack frame: the local objects of fetch living in it
    input,            \* the string last handed to a uri entry point
    entry,            \* the uri entry point that ran last
    obj,              \* the uri value: <<>> when none exists, else <<its members>>
    prev,             \* obj as it was before the entry point ran
    raised,           \* the type of the exception the entry point threw, or "none"
    out               \* what inner_parse_out made of input: [ok, components]

others == <<threads, frames, input, entry, obj, prev, raised, out>>

vars ==
    <<url, path_uri, options, inserted, peer, wire, pc, hist, socket, sockets,
      written, response_buffer, stream_state, status_code, headers, body, result,
      others>>

inputs == <<url, path_uri, options, inserted, peer>>

Phases ==
    <<"Idle", "Resolving", "Connecting", "Sending", "ReadingStatusLine",
      "ReadingHeaders", "ReadingBody", "Done">>

\* nothing else runs: no concurrent call, no uri under assignment
OthersIdle ==
    /\ threads = <<>>
    /\ frames = <<>>
    /\ input = <<>>
    /\ entry = "none"
    /\ obj = <<>>
    /\ prev = <<>>
    /\ raised = "none"
    /\ out = <<>>

Init ==
    /\ \E u \in URLs, m \in Methods, ins \in InsertSeqs, p \in Peers :
          /\ uri_constructs(u)
          /\ p = DefaultPeer \/ (u = DefaultURL /\ m = <<"G", "E", "T">> /\ ins = <<>>)
          /\ url = u
          /\ path_uri = parse(u)
          /\ LET built == with_inserts([default_options EXCEPT !.method = m],
                                       <<<<"U", "s", "e", "r", "-", "A", "g", "e", "n", "t">>>>,
                                       ins)
             IN  options = built.options /\ inserted = built.order
          /\ peer = p
    /\ wire = <<>>
    /\ pc = "Idle"
    /\ hist = <<"Idle">>
    /\ socket = "unconstructed"
    /\ sockets = 0
    /\ written = <<>>
    /\ response_buffer = <<>>
    /\ stream_state = [eof |-> FALSE, fail |-> FALSE]
    /\ status_code = 0
    /\ headers = <<>>
    /\ body = <<>>
    /\ result = <<>>
    /\ OthersIdle

\* a socket held as a bare descriptor, which unwinding does not close
destroy_leaks(s) == s

\* a handler that reports every failure with one fixed text
catch_response_generic(e) ==
    [status_code |-> 500, headers |-> <<>>,
     body |-> <<"f", "e", "t", "c", "h", " ", "f", "a", "i", "l", "e", "d">>]

\* a handler that returns no message
catch_response_empty(e) == [status_code |-> 500, headers |-> <<>>, body |-> <<>>]

\* a handler that returns what the call had received when it failed
catch_response_partial(e) ==
    [status_code |-> status_code, headers |-> headers, body |-> body]

\* the value the handler returns
catch_response(e) == [status_code |-> 500, headers |-> <<>>, body |-> e.what]

\* ~basic_stream_socket(): leaving the try block closes the socket
destroy(s) == IF s = "open" THEN "closed" ELSE s

\* an exception e thrown inside the try block while the socket is in state s:
\* the stack unwinds and the handler returns its response
Raise(e, s) ==
    /\ pc' = IF catches(e.type) THEN "Failed" ELSE "Unhandled"
    /\ hist' = Append(hist, IF catches(e.type) THEN "Failed" ELSE "Unhandled")
    /\ result' = IF catches(e.type) THEN <<catch_response(e)>> ELSE <<>>
    /\ socket' = destroy(s)

\* the call is entered: io_context io_context
Enter ==
    /\ pc = "Idle"
    /\ \/ /\ pc' = "Resolving"
          /\ hist' = Append(hist, "Resolving")
          /\ UNCHANGED <<socket, result>>
       \/ Raise(system_error(<<"m", "u", "t", "e", "x">>,
                             <<"C", "a", "n", "n", "o", "t", " ", "a", "l", "l", "o",
                               "c", "a", "t", "e", " ", "m", "e", "m", "o", "r", "y">>),
                socket)
    /\ UNCHANGED <<others, inputs, wire, sockets, written, response_buffer, stream_state,
                   status_code, headers, body>>

\* resolver.resolve(_path.host(), std::to_string(_path.port()))
Resolve ==
    /\ pc = "Resolving"
    /\ \/ /\ pc' = "Connecting"
          /\ hist' = Append(hist, "Connecting")
          /\ UNCHANGED <<socket, result>>
       \/ Raise(system_error(<<"r", "e", "s", "o", "l", "v", "e">>,
                             <<"H", "o", "s", "t", " ", "n", "o", "t", " ",
                               "f", "o", "u", "n", "d">>),
                socket)
    /\ UNCHANGED <<others, inputs, wire, sockets, written, response_buffer, stream_state,
                   status_code, headers, body>>

\* tcp::socket socket(io_context); boost::asio::connect(socket, endpoints)
Connect ==
    /\ pc = "Connecting"
    /\ sockets' = sockets + 1
    /\ \/ /\ pc' = "Sending"
          /\ hist' = Append(hist, "Sending")
          /\ socket' = "open"
          /\ UNCHANGED result
       \/ Raise(system_error(<<"c", "o", "n", "n", "e", "c", "t">>,
                             <<"C", "o", "n", "n", "e", "c", "t", "i", "o", "n", " ",
                               "r", "e", "f", "u", "s", "e", "d">>),
                "closed")
    /\ UNCHANGED <<others, inputs, wire, written, response_buffer, stream_state,
                   status_code, headers, body>>

\* the request is formed and written; the peer then has its answer to send.
\* A failed write may have put any proper prefix of the request on the wire.
Send ==
    /\ pc = "Sending"
    /\ \/ /\ written' = form_request(path_uri, options)
          /\ wire' = stream(peer)
          /\ pc' = "ReadingStatusLine"
          /\ hist' = Append(hist, "ReadingStatusLine")
          /\ UNCHANGED <<socket, result>>
       \/ /\ \E k \in 0..(Len(form_request(path_uri, options)) - 1) :
                written' = Take(form_request(path_uri, options), k)
          /\ Raise(system_error(<<"w", "r", "i", "t", "e">>,
                                <<"B", "r", "o", "k", "e", "n", " ", "p", "i", "p", "e">>),
                   socket)
          /\ UNCHANGED wire
    /\ UNCHANGED <<others, inputs, sockets, response_buffer, stream_state,
                   status_code, headers, body>>

InvalidResponse ==
    <<"I", "n", "v", "a", "l", "i", "d", " ", "r", "e", "s", "p", "o", "n", "s", "e">>

ConnectionReset ==
    <<"C", "o", "n", "n", "e", "c", "t", "i", "o", "n", " ", "r", "e", "s", "e", "t", " ",
      "b", "y", " ", "p", "e", "e", "r">>

\* one read of the socket inside read_until(socket, response_buffer, "\r\n");
\* once the buffer holds "\r\n", read_until returns and the status line is parsed
ReadStatusLine ==
    /\ pc = "ReadingStatusLine"
    /\ \/ /\ wire = <<>>
          /\ Raise(system_error(<<"r", "e", "a", "d", "_", "u", "n", "t", "i", "l">>,
                                <<"E", "n", "d", " ", "o", "f", " ", "f", "i", "l", "e">>),
                   socket)
          /\ UNCHANGED <<wire, response_buffer, stream_state, status_code>>
       \/ /\ Raise(system_error(<<"r", "e", "a", "d", "_", "u", "n", "t", "i", "l">>,
                                ConnectionReset),
                   socket)
          /\ UNCHANGED <<wire, response_buffer, stream_state, status_code>>
       \/ \E k \in 1..Len(wire) :
            /\ Find(response_buffer \o Take(wire, k), CRLF, 0) = NPOS
            /\ wire' = Drop(wire, k)
            /\ response_buffer' = response_buffer \o Take(wire, k)
            /\ UNCHANGED <<pc, hist, socket, result, stream_state, status_code>>
       \/ \E k \in 1..Len(wire) :
            /\ Find(response_buffer \o Take(wire, k), CRLF, 0) # NPOS
            /\ parse_status_line(response_buffer \o Take(wire, k)).invalid
            /\ wire' = Drop(wire, k)
            /\ response_buffer' = parse_status_line(response_buffer \o Take(wire, k)).st.buf
            /\ stream_state' =
                   [eof  |-> parse_status_line(response_buffer \o Take(wire, k)).st.eof,
                    fail |-> parse_status_line(response_buffer \o Take(wire, k)).st.fail]
            /\ status_code' = parse_status_line(response_buffer \o Take(wire, k)).status_code
            /\ Raise(runtime_error(InvalidResponse), socket)
       \/ \E k \in 1..Len(wire) :
            /\ Find(response_buffer \o Take(wire, k), CRLF, 0) # NPOS
            /\ ~parse_status_line(response_buffer \o Take(wire, k)).invalid
            /\ wire' = Drop(wire, k)
            /\ response_buffer' = parse_status_line(response_buffer \o Take(wire, k)).st.buf
            /\ stream_state' =
                   [eof  |-> parse_status_line(response_buffer \o Take(wire, k)).st.eof,
                    fail |-> parse_status_line(response_buffer \o Take(wire, k)).st.fail]
            /\ status_code' = parse_status_line(response_buffer \o Take(wire, k)).status_code
            /\ pc' = "ReadingHeaders"
            /\ hist' = Append(hist, "ReadingHeaders")
            /\ UNCHANGED <<socket, result>>
    /\ UNCHANGED <<others, inputs, sockets, written, headers, body>>

\* the header loop over what the buffer holds, then body << &response_buffer
ReadHeaders ==
    /\ pc = "ReadingHeaders"
    /\ LET r == read_headers([buf  |-> response_buffer,
                              eof  |-> stream_state.eof,
                              fail |-> stream_state.fail], <<>>)
       IN  /\ headers' = r.headers
           /\ body' = r.st.buf
           /\ response_buffer' = <<>>
           /\ stream_state' = [eof |-> r.st.eof, fail |-> r.st.fail]
    /\ pc' = "ReadingBody"
    /\ hist' = Append(hist, "ReadingBody")
    /\ UNCHANGED <<others, inputs, wire, socket, sockets, written, status_code, result>>

\* return {static_cast<int>(status_code), headers.str(), body.str()}
return_response == [status_code |-> status_code, headers |-> headers, body |-> body]

\* a body loop that no error and no end of file ends
ReadBodyOnly ==
    /\ pc = "ReadingBody"
    /\ \E k \in 1..Len(wire) :
          /\ body' = body \o Take(wire, k)
          /\ wire' = Drop(wire, k)
    /\ UNCHANGED <<pc, hist, socket, result>>
    /\ UNCHANGED <<others, inputs, sockets, written, response_buffer, stream_state,
                   status_code, headers>>

\* one turn of the loop on boost::asio::read(socket, response_buffer,
\* transfer_at_least(1), error): bytes go to body, end of file ends the loop
\* and the call returns, any other error is thrown
ReadBody ==
    /\ pc = "ReadingBody"
    /\ \/ /\ \E k \in 1..Len(wire) :
                /\ body' = body \o Take(wire, k)
                /\ wire' = Drop(wire, k)
          /\ UNCHANGED <<pc, hist, socket, result>>
       \/ /\ wire = <<>>
          /\ pc' = "Done"
          /\ hist' = Append(hist, "Done")
          /\ result' = <<return_response>>
          /\ socket' = destroy(socket)
          /\ UNCHANGED <<wire, body>>
       \/ /\ Raise(system_error(<<>>, ConnectionReset), socket)
          /\ UNCHANGED <<wire, body>>
    /\ UNCHANGED <<others, inputs, sockets, written, response_buffer, stream_state,
                   status_code, headers>>

Next ==
    \/ Enter
    \/ Resolve
    \/ Connect
    \/ Send
    \/ ReadStatusLine
    \/ ReadHeaders
    \/ ReadBody

Spec == Init /\ [][Next]_vars

(***************************************************************************)
(* Properties of fetch.                                                    *)
(***************************************************************************)
Terminal == {"Done", "Failed", "Unhandled"}

\* the phase the call was in when it took its last step
came_from == hist[Len(hist) - 1]

\* C1: no exception leaves fetch; a call that has ended, at whatever step it
\* failed, has returned exactly one value, and a call that has not ended has
\* returned none
C1_FailuresReturned ==
    /\ pc # "Unhandled"
    /\ pc \in {"Done", "Failed"} <=> Len(result) = 1
    /\ pc \notin Terminal => result = <<>>

\* a call that failed in the middle of the body and returned a value
C1_Witness ==
    /\ pc = "Failed"
    /\ came_from = "ReadingBody"
    /\ body # <<>>
    /\ Len(result) = 1

\* C2: a call constructs at most one socket, and whenever the call has ended
\* the socket is not open
C2_SocketClosed ==
    /\ sockets <= 1
    /\ socket = "open" => sockets = 1
    /\ pc \in Terminal => socket # "open"

\* a call that failed while reading the headers' status line, after connecting,
\* and left its one socket closed
C2_Witness ==
    /\ pc = "Failed"
    /\ came_from = "ReadingStatusLine"
    /\ sockets = 1
    /\ socket = "closed"

\* the phases before Done, from each of which the claim C3 expects a step to
\* Failed
Running == {Phases[i] : i \in 1..(Len(Phases) - 1)}

\* C3: the phases are entered in the order Idle, Resolving, Connecting,
\* Sending, ReadingStatusLine, ReadingHeaders, ReadingBody, Done with none
\* entered twice; from every phase before Done a step to Failed is possible;
\* Done and Failed have no successor
C3_PhaseOrder ==
    /\ \A i \in 1..Len(hist) :
          \/ i <= Len(Phases) /\ hist[i] = Phases[i]
          \/ i = Len(hist) /\ i > 1 /\ hist[i] = "Failed"
    /\ pc \in {"Done", "Failed"} => ~ENABLED Next
    /\ pc \in Running => ENABLED (pc' = "Failed" /\ Next)

\* the name a header block gives the body's length under
ContentLengthName ==
    <<"C", "o", "n", "t", "e", "n", "t", "-", "L", "e", "n", "g", "t", "h", ":", " ">>

\* whether a header block carries a Content-Length
HasContentLength(fields) == Find(fields, ContentLengthName, 0) # NPOS

\* the number a header block's Content-Length carries
ContentLengthOf(fields) ==
    Atoi(Drop(fields, Find(fields, ContentLengthName, 0) + Len(ContentLengthName)))

\* the call received the peer's whole header block with the status line
HeadersWhole == Len(result) = 1 /\ result[1].headers = peer.fields

\* C4: a call that returns a response whose headers carry Content-Length n
\* returns as body exactly the first n bytes the peer sent after the headers,
\* whatever the peer sent after them
C4_BodyOfContentLength ==
    (pc = "Done" /\ HeadersWhole /\ HasContentLength(peer.fields))
        => result[1].body = Take(peer.body, ContentLengthOf(peer.fields))

\* C5: a call to a peer that sends a status line, headers without
\* Content-Length, an empty line and a body, and then closes, returns as body
\* exactly the body the peer sent
C5_BodyUntilClose ==
    (/\ pc = "Done"
     /\ peer.status = StatusOK
     /\ peer.blank = CRLF
     /\ ~HasContentLength(peer.fields)
     /\ peer.fields # TransferChunked)
        => result[1].body = peer.body

\* C6: a call that received the header Transfer-Encoding: chunked never
\* returns a response; it does not end in Done
C6_ChunkedRejected ==
    (peer.fields = TransferChunked /\ HeadersWhole) => pc # "Done"

\* the step a caller reads off a returned value: the text before the first
\* ": " of its body
failed_step(r) ==
    LET at == Find(r.body, <<":", " ">>, 0)
    IN  IF r.status_code # 500 \/ r.headers # <<>> \/ at = NPOS
        THEN <<>>
        ELSE Take(r.body, at)

\* the text that names each of the first three steps in a returned value
StepNames ==
    [Resolving  |-> <<"r", "e", "s", "o", "l", "v", "e">>,
     Connecting |-> <<"c", "o", "n", "n", "e", "c", "t">>,
     Sending    |-> <<"w", "r", "i", "t", "e">>]

C8_BadStatusLineRejected ==
    peer.status \in BadStatusLines =>
        pc \notin {"ReadingHeaders", "ReadingBody", "Done"}

without_fragment(p) ==
    IF Find(p, <<"#">>, 0) = NPOS THEN p ELSE Take(p, Find(p, <<"#">>, 0))

\* C10: the bytes a call writes in full are the request line with the method,
\* the path and query without the fragment and HTTP/1.1, the Host header,
\* Connection: close, the entries of options.headers in the order the caller
\* inserted them, and an empty line, each line ended by CRLF
C10_RequestBytes ==
    "ReadingStatusLine" \in {hist[i] : i \in 1..Len(hist)} =>
        written =
            options.method \o <<" ">> \o without_fragment(path_uri.path)
                \o <<" ", "H", "T", "T", "P", "/", "1", ".", "1">> \o CRLF
            \o <<"H", "o", "s", "t", ":", " ">> \o path_uri.host \o CRLF
            \o <<"C", "o", "n", "n", "e", "c", "t", "i", "o", "n", ":", " ",
                 "c", "l", "o", "s", "e">> \o CRLF
            \o header_lines(options.headers, inserted)
            \o CRLF

\* the port a scheme stands for when the uri names none
default_port(scheme) == IF scheme = <<"h", "t", "t", "p", "s">> THEN 443 ELSE 80

\* C11: the Host line of a written request carries host:port when the uri's
\* port is not the default of its scheme, and the host alone when it is
C11_HostCarriesPort ==
    "ReadingStatusLine" \in {hist[i] : i \in 1..Len(hist)} =>
        Find(written,
             CRLF \o <<"H", "o", "s", "t", ":", " ">> \o path_uri.host
                 \o (IF path_uri.port = default_port(path_uri.scheme)
                     THEN <<>>
                     ELSE <<":">> \o to_string(path_uri.port))
                 \o CRLF,
             0) # NPOS

(***************************************************************************)
(* Calls of fetch running concurrently.  Every object fetch works on is a  *)
(* parameter or a local of automatic storage, so each call has them in its *)
(* own stack frame; a thread has its phase, its connection and the value   *)
(* returned to it.                                                         *)
(***************************************************************************)
Calls == {1, 2}

\* a call whose locals are objects of static storage, one for all calls
frame_shared(c) == 1

\* the frame a call's parameters and locals live in: its own
frame_of(c) == c

\* the variables of the one call above, which take no part here
one_call ==
    <<inputs, wire, pc, hist, socket, sockets, written, response_buffer,
      stream_state, status_code, headers, body, result>>

\* the one call above, not entered
OneCallIdle ==
    /\ url = DefaultURL
    /\ path_uri = parse(DefaultURL)
    /\ options = default_options
    /\ inserted = <<<<"U", "s", "e", "r", "-", "A", "g", "e", "n", "t">>>>
    /\ peer = DefaultPeer
    /\ wire = <<>>
    /\ pc = "Idle"
    /\ hist = <<"Idle">>
    /\ socket = "unconstructed"
    /\ sockets = 0
    /\ written = <<>>
    /\ response_buffer = <<>>
    /\ stream_state = [eof |-> FALSE, fail |-> FALSE]
    /\ status_code = 0
    /\ headers = <<>>
    /\ body = <<>>
    /\ result = <<>>

\* what the peers of concurrent calls send
ConcPeers ==
    {[status |-> sl, fields |-> <<>>, blank |-> CRLF, body |-> b] :
        sl \in {StatusOK, <<"H", "T", "P", "/", "1", ".", "1", " ", "2", "0", "0",
                            " ", "O", "K", "\r", "\n">>},
        b \in {<<"h", "i">>, <<"y", "o">>}}

\* the locals of fetch before any is constructed
frame0 ==
    [socket |-> "unconstructed", request |-> <<>>, response_buffer |-> <<>>,
     stream_state |-> [eof |-> FALSE, fail |-> FALSE], status_code |-> 0,
     headers |-> <<>>, body |-> <<>>]

\* the exceptions the steps of fetch throw
errors ==
    [io_context |-> system_error(<<"m", "u", "t", "e", "x">>,
                                 <<"C", "a", "n", "n", "o", "t", " ", "a", "l", "l", "o",
                                   "c", "a", "t", "e", " ", "m", "e", "m", "o", "r", "y">>),
     resolve    |-> system_error(<<"r", "e", "s", "o", "l", "v", "e">>,
                                 <<"H", "o", "s", "t", " ", "n", "o", "t", " ",
                                   "f", "o", "u", "n", "d">>),
     connect    |-> system_error(<<"c", "o", "n", "n", "e", "c", "t">>,
                                 <<"C", "o", "n", "n", "e", "c", "t", "i", "o", "n", " ",
                                   "r", "e", "f", "u", "s", "e", "d">>),
     write      |-> system_error(<<"w", "r", "i", "t", "e">>,
                                 <<"B", "r", "o", "k", "e", "n", " ", "p", "i", "p", "e">>),
     read_until |-> system_error(<<"r", "e", "a", "d", "_", "u", "n", "t", "i", "l">>,
                                 ConnectionReset),
     eof        |-> system_error(<<"r", "e", "a", "d", "_", "u", "n", "t", "i", "l">>,
                                 <<"E", "n", "d", " ", "o", "f", " ", "f", "i", "l", "e">>),
     invalid    |-> runtime_error(InvalidResponse),
     read       |-> system_error(<<>>, ConnectionReset)]

\* a thread t with frame f moves on to phase q
go(t, f, q) == [t |-> [t EXCEPT !.pc = q], f |-> f]

\* a thread t with frame f has e thrown in its try block
thrown(t, f, e) ==
    [t |-> [t EXCEPT !.pc = IF catches(e.type) THEN "Failed" ELSE "Unhandled",
                     !.result = IF catches(e.type) THEN <<catch_response(e)>> ELSE <<>>],
     f |-> [f EXCEPT !.socket = destroy(f.socket)]]

\* read_until has k more bytes in the buffer: it goes on while no "\r\n" is in
\* it, and once there is, the status line is parsed
read_status(t, f, k) ==
    LET buf == f.response_buffer \o Take(t.wire, k)
        r   == parse_status_line(buf)
        t2  == [t EXCEPT !.wire = Drop(t.wire, k)]
        g   == [f EXCEPT !.response_buffer = r.st.buf,
                         !.stream_state = [eof |-> r.st.eof, fail |-> r.st.fail],
                         !.status_code = r.status_code]
    IN  IF Find(buf, CRLF, 0) = NPOS
        THEN [t |-> t2, f |-> [f EXCEPT !.response_buffer = buf]]
        ELSE IF r.invalid THEN thrown(t2, g, errors.invalid)
        ELSE go(t2, g, "ReadingHeaders")

\* the header loop and body << &response_buffer, on the frame f
read_header_block(f) ==
    LET r == read_headers([buf  |-> f.response_buffer,
                           eof  |-> f.stream_state.eof,
                           fail |-> f.stream_state.fail], <<>>)
    IN  [f EXCEPT !.headers = r.headers,
                  !.body = r.st.buf,
                  !.response_buffer = <<>>,
                  !.stream_state = [eof |-> r.st.eof, fail |-> r.st.fail]]

\* the steps a thread t can take on the frame f: the pairs [t, f] after them
steps(t, f) ==
    CASE t.pc = "Idle" ->
             {go(t, f, "Resolving"), thrown(t, f, errors.io_context)}
      [] t.pc = "Resolving" ->
             {go(t, f, "Connecting"), thrown(t, f, errors.resolve)}
      [] t.pc = "Connecting" ->
             {go(t, [f EXCEPT !.socket = "open"], "Sending"),
              thrown(t, [f EXCEPT !.socket = "closed"], errors.connect)}
      [] t.pc = "Sending" ->
             LET g == [f EXCEPT !.request = form_request(parse(DefaultURL), default_options)]
             IN  {go([t EXCEPT !.wire = stream(t.peer)], g, "ReadingStatusLine"),
                  thrown(t, g, errors.write)}
      [] t.pc = "ReadingStatusLine" ->
             {read_status(t, f, k) : k \in 1..Len(t.wire)}
                 \cup {thrown(t, f, errors.read_until)}
                 \cup (IF t.wire = <<>> THEN {thrown(t, f, errors.eof)} ELSE {})
      [] t.pc = "ReadingHeaders" ->
             {go(t, read_header_block(f), "ReadingBody")}
      [] t.pc = "ReadingBody" ->
             {[t |-> [t EXCEPT !.wire = Drop(t.wire, k)],
               f |-> [f EXCEPT !.body = f.body \o Take(t.wire, k)]] : k \in 1..Len(t.wire)}
                 \cup {thrown(t, f, errors.read)}
                 \cup (IF t.wire = <<>>
                       THEN {[t |-> [t EXCEPT !.pc = "Done",
                                              !.result = <<[status_code |-> f.status_code,
                                                            headers |-> f.headers,
                                                            body |-> f.body]>>],
                              f |-> [f EXCEPT !.socket = destroy(f.socket)]]}
                       ELSE {})
      [] OTHER -> {}

ConcInit ==
    /\ threads \in [Calls -> {[pc |-> "Idle", wire |-> <<>>, result |-> <<>>, peer |-> p] :
                                p \in ConcPeers}]
    /\ frames = [c \in Calls |-> frame0]
    /\ input = <<>>
    /\ entry = "none"
    /\ obj = <<>>
    /\ prev = <<>>
    /\ raised = "none"
    /\ out = <<>>
    /\ OneCallIdle

\* the thread of call c, in phase q, takes one step on its frame
Advance(c, q) ==
    /\ threads[c].pc = q
    /\ \E n \in steps(threads[c], frames[frame_of(c)]) :
          /\ threads' = [threads EXCEPT ![c] = n.t]
          /\ frames' = [frames EXCEPT ![frame_of(c)] = n.f]
    /\ UNCHANGED <<one_call, input, entry, obj, prev, raised, out>>

ConcEnter == \E c \in Calls : Advance(c, "Idle")

ConcResolve == \E c \in Calls : Advance(c, "Resolving")

ConcConnect == \E c \in Calls : Advance(c, "Connecting")

ConcSend == \E c \in Calls : Advance(c, "Sending")

ConcReadStatusLine == \E c \in Calls : Advance(c, "ReadingStatusLine")

ConcReadHeaders == \E c \in Calls : Advance(c, "ReadingHeaders")

ConcReadBody == \E c \in Calls : Advance(c, "ReadingBody")

ConcNext ==
    \/ ConcEnter
    \/ ConcResolve
    \/ ConcConnect
    \/ ConcSend
    \/ ConcReadStatusLine
    \/ ConcReadHeaders
    \/ ConcReadBody

ConcSpec == ConcInit /\ [][ConcNext]_vars

\* the lengths the buffer can have when read_until returns with a status line
\* of the peer p in it
first_reads(p) ==
    {k \in 1..Len(stream(p)) : Find(Take(stream(p), k), CRLF, 0) # NPOS}

\* what a call running alone makes of the bytes of p when its first k bytes
\* come with the status line: the response it returns at the end of the stream
alone(p, k) ==
    LET r == parse_status_line(Take(stream(p), k))
        h == read_headers(r.st, <<>>)
    IN  [invalid  |-> r.invalid,
         response |-> [status_code |-> r.status_code,
                       headers     |-> h.headers,
                       body        |-> h.st.buf \o Drop(stream(p), k)]]

\* the values a call running alone can return against the peer p
alone_returns(p) ==
    {alone(p, k).response : k \in {j \in first_reads(p) : ~alone(p, j).invalid}}
        \cup {[status_code |-> 500, headers |-> <<>>, body |-> errors[n].what] :
                n \in {"io_context", "resolve", "connect", "write", "read_until", "read"}}
        \cup {[status_code |-> 500, headers |-> <<>>, body |-> errors.invalid.what] :
                k \in {j \in first_reads(p) : alone(p, j).invalid}}

AlphaChars == {Printable[i] : i \in 34..59} \cup {Printable[i] : i \in 66..91}

\* utility::details::is_alnum
is_alnum == AlphaChars \cup DigitChars

is_unreserved == is_alnum \cup {"-", ".", "_", "~"}

is_sub_delim == {"!", "$", "&", "'", "(", ")", "*", "+", ",", ";", "="}

is_scheme_character == is_alnum \cup {"+", "-", "."}

is_user_info_character == is_unreserved \cup is_sub_delim \cup {"%", ":"}

is_authority_character == is_unreserved \cup is_sub_delim \cup {"%", "@", ":", "[", "]"}

is_path_character == is_unreserved \cup is_sub_delim \cup {"%", "/", ":", "@"}

is_query_character == is_path_character \cup {"?"}

is_fragment_character == is_query_character

\* utility::details::inplace_tolower
inplace_tolower(s) ==
    [i \in 1..Len(s) |->
        IF Ascii(s[i]) \in 65..90 THEN Printable[Ascii(s[i]) + 1] ELSE s[i]]

\* the character at offset i of the zero-terminated string s
At(s, i) == IF i < Len(s) THEN s[i + 1] ELSE "NUL"

\* where a scan of s from offset from stops: at the first character that is
\* not one of cs (the terminator is none of them)
scan_end(s, from, cs) == from + SpanLen(Drop(s, from), cs)

\* where a scan of s from offset from stops that runs up to a character of
\* stops or the terminator
find_first_of(s, from, stops) ==
    LET hits == {i \in from..(Len(s) - 1) : s[i + 1] \in stops}
    IN  IF hits = {} THEN Len(s) ELSE CHOOSE i \in hits : \A j \in hits : i <= j

\* the text of a range of s
text(s, range) == IF range = <<>> THEN <<>> ELSE SubSeq(s, range[1] + 1, range[2])

\* utility::conversions::details::scan_string<int> on a run of digits
scan_string(ds) == DecVal(ds)

\* the split of the authority [b, e) of s into user info, host and port
split_authority(s, b, e) ==
    LET digits     == {i \in b..(e - 1) : \A j \in i..(e - 1) : s[j + 1] \in DigitChars}
        stop       == IF digits = {} THEN e - 1
                      ELSE (CHOOSE i \in digits : \A j \in digits : i <= j) - 1
        port_begin == IF stop < b THEN b ELSE stop
        has_port   == At(s, port_begin) = ":"
        host_end   == IF has_port THEN port_begin ELSE e
        u_end      == scan_end(Take(s, host_end), b, is_user_info_character)
        has_uinfo  == At(s, u_end) = "@"
    IN  [uinfo |-> IF has_uinfo THEN <<b, u_end>> ELSE <<>>,
         host  |-> <<(IF has_uinfo THEN u_end + 1 ELSE b), host_end>>,
         port  |-> IF has_port THEN scan_string(SubSeq(s, port_begin + 2, e)) ELSE 0]

\* the first part of parse_from: whether a ':' comes before the first '/'
is_relative_reference(s) ==
    At(s, find_first_of(s, 0, {"/", ":"})) # ":"

\* inner_parse_out::parse_from: [ok, the ranges set, port].  A part the parse
\* did not come to is <<>>, as are the parts of a parse that returned false.
parse_from(encoded) ==
    LET s   == encoded
        rel == is_relative_reference(s)
        \* the scheme
        colon     == find_first_of(s, 0, {":"})
        scheme_ok == rel \/ (/\ At(s, 0) \in AlphaChars
                             /\ scan_end(s, 1, is_scheme_character) >= colon)
        p1        == IF rel THEN 0 ELSE colon + 1
        \* the authority
        has_auth  == At(s, p1) = "/" /\ At(s, p1 + 1) = "/"
        auth_b    == p1 + 2
        auth_e    == scan_end(s, auth_b, is_authority_character \ {"/", "?", "#"})
        auth_ok   == ~has_auth \/ At(s, auth_e) \in {"/", "?", "#", "NUL"}
        parts     == IF has_auth /\ auth_b # auth_e
                     THEN split_authority(s, auth_b, auth_e)
                     ELSE [uinfo |-> <<>>, host |-> <<>>, port |-> 0]
        p2        == IF has_auth THEN auth_e ELSE p1
        \* the path
        has_path  == At(s, p2) = "/" \/ At(s, p2) \in is_path_character
        path_e    == scan_end(s, p2, is_path_character \ {"?", "#"})
        path_ok   == ~has_path \/ At(s, path_e) \in {"?", "#", "NUL"}
        p3        == IF has_path THEN path_e ELSE p2
        \* the query
        has_query == At(s, p3) = "?"
        query_e   == scan_end(s, p3 + 1, is_query_character \ {"#"})
        query_ok  == ~has_query \/ At(s, query_e) \in {"#", "NUL"}
        p4        == IF has_query THEN query_e ELSE p3
        \* the fragment
        has_frag  == At(s, p4) = "#"
        frag_e    == scan_end(s, p4 + 1, is_fragment_character)
        frag_ok   == ~has_frag \/ At(s, frag_e) = "NUL"
        ok        == scheme_ok /\ auth_ok /\ path_ok /\ query_ok /\ frag_ok
    IN  IF ~ok
        THEN [ok |-> FALSE, scheme |-> <<>>, uinfo |-> <<>>, host |-> <<>>, port |-> 0,
              path |-> <<>>, query |-> <<>>, fragment |-> <<>>]
        ELSE [ok       |-> TRUE,
              scheme   |-> IF rel THEN <<>> ELSE <<0, colon>>,
              uinfo    |-> parts.uinfo,
              host     |-> parts.host,
              port     |-> parts.port,
              path     |-> IF has_path THEN <<p2, path_e>> ELSE <<>>,
              query    |-> IF has_query THEN <<p3 + 1, query_e>> ELSE <<>>,
              fragment |-> IF has_frag THEN <<p4 + 1, frag_e>> ELSE <<>>]

\* ------------------------------------------------------------------------
\* inner_parse_out::parse_from, pointer by pointer
\* ------------------------------------------------------------------------

\* A pointer into the buffer is its offset from encoded; the buffer holds the
\* characters of the string at 0 .. size() - 1 and the terminator at size().
\* What stands at another offset is not the program's to read: peek gives
\* "OUT" for it.  A null pointer is no offset.
nullptr == -1

peek(s, i) == IF 0 <= i /\ i <= Len(s) THEN At(s, i) ELSE "OUT"

\* every character there is
AnyChar == {Printable[i] : i \in 1..Len(Printable)} \cup {"\t", "\n", "\r", "NUL"}

\* for (; *p is none of stops; p++) { if (!legal(*p)) return false; } from p:
\* where it stops, whether it stopped without return false, and the offsets
\* it read
RECURSIVE scan_to(_, _, _, _, _)
scan_to(s, p, stops, legal, reads) ==
    IF peek(s, p) \in stops \/ peek(s, p) = "OUT"
    THEN [at |-> p, ok |-> TRUE, reads |-> reads \cup {p}]
    ELSE IF peek(s, p) \notin legal
    THEN [at |-> p, ok |-> FALSE, reads |-> reads \cup {p}]
    ELSE scan_to(s, p + 1, stops, legal, reads \cup {p})

\* a backward scan over digits that does not stop at authority_begin
RECURSIVE scan_port_unguarded(_, _, _, _)
scan_port_unguarded(s, port_begin, authority_begin, reads) ==
    IF peek(s, port_begin) \in DigitChars
    THEN scan_port_unguarded(s, port_begin - 1, authority_begin, reads \cup {port_begin})
    ELSE [at |-> port_begin, reads |-> reads \cup {port_begin}]

\* for (; isdigit(*port_begin) && port_begin != authority_begin; port_begin--)
RECURSIVE scan_port(_, _, _, _)
scan_port(s, port_begin, authority_begin, reads) ==
    IF peek(s, port_begin) \in DigitChars /\ port_begin # authority_begin
    THEN scan_port(s, port_begin - 1, authority_begin, reads \cup {port_begin})
    ELSE [at |-> port_begin, reads |-> reads \cup {port_begin}]

\* for (; is_user_info_character(*u_end) && u_end != host_end; u_end++)
RECURSIVE scan_uinfo(_, _, _, _)
scan_uinfo(s, u_end, host_end, reads) ==
    IF peek(s, u_end) \in is_user_info_character /\ u_end # host_end
    THEN scan_uinfo(s, u_end + 1, host_end, reads \cup {u_end})
    ELSE [at |-> u_end, reads |-> reads \cup {u_end}]

\* the members of a new inner_parse_out, with the state of a call of
\* parse_from on it: p, whether it has hit a return false, the offsets read,
\* those read by the port scan and by the user-info scan, and authority_begin
inner_parse_out ==
    [scheme_begin |-> nullptr, scheme_end |-> nullptr,
     uinfo_begin |-> nullptr, uinfo_end |-> nullptr,
     host_begin |-> nullptr, host_end |-> nullptr,
     port |-> 0,
     path_begin |-> nullptr, path_end |-> nullptr,
     query_begin |-> nullptr, query_end |-> nullptr,
     fragment_begin |-> nullptr, fragment_end |-> nullptr,
     p |-> 0, returned_false |-> FALSE, reads |-> {},
     port_reads |-> {}, uinfo_reads |-> {}, authority_begin |-> nullptr]

\* parse_from up to the end of the scheme
parse_scheme(s, o) ==
    LET p2 == scan_to(s, 0, {"/", "NUL", ":"}, AnyChar, {})
        is_relative == peek(s, p2.at) # ":"
        sc == scan_to(s, 1, {":"}, is_scheme_character, p2.reads \cup {0})
    IN  IF is_relative THEN [o EXCEPT !.reads = p2.reads]
        ELSE IF peek(s, 0) \notin AlphaChars
        THEN [o EXCEPT !.reads = p2.reads \cup {0}, !.returned_false = TRUE]
        ELSE IF ~sc.ok
        THEN [o EXCEPT !.scheme_begin = 0, !.p = sc.at, !.reads = sc.reads,
                       !.returned_false = TRUE]
        ELSE [o EXCEPT !.scheme_begin = 0, !.scheme_end = sc.at, !.p = sc.at + 1,
                       !.reads = sc.reads]

\* the split of the authority [authority_begin, authority_end) into port,
\* host and user info
parse_authority_parts(s, o, authority_begin, authority_end) ==
    LET pb == scan_port(s, authority_end - 1, authority_begin, {})
        has_port == peek(s, pb.at) = ":"
        host_end == IF has_port THEN pb.at ELSE authority_end
        u == scan_uinfo(s, authority_begin, host_end, {})
        has_uinfo == peek(s, u.at) = "@"
    IN  [o EXCEPT !.host_begin = IF has_uinfo THEN u.at + 1 ELSE authority_begin,
                  !.host_end = host_end,
                  !.port = IF has_port
                           THEN scan_string(SubSeq(s, pb.at + 2, authority_end))
                           ELSE 0,
                  !.uinfo_begin = IF has_uinfo THEN authority_begin ELSE nullptr,
                  !.uinfo_end = IF has_uinfo THEN u.at ELSE nullptr,
                  !.port_reads = pb.reads,
                  !.uinfo_reads = u.reads,
                  !.reads = o.reads \cup pb.reads \cup u.reads]

\* parse_from from the test for two slashes to the end of the authority
parse_authority(s, o) ==
    LET slashes == peek(s, o.p) = "/" /\ peek(s, o.p + 1) = "/"
        looked  == IF peek(s, o.p) = "/" THEN {o.p, o.p + 1} ELSE {o.p}
        a == scan_to(s, o.p + 2, {"/", "?", "#", "NUL"}, is_authority_character,
                     o.reads \cup looked)
    IN  IF o.returned_false THEN o
        ELSE IF ~slashes THEN [o EXCEPT !.reads = o.reads \cup looked]
        ELSE IF ~a.ok
        THEN [o EXCEPT !.authority_begin = o.p + 2, !.p = a.at, !.reads = a.reads,
                       !.returned_false = TRUE]
        ELSE IF a.at = o.p + 2
        THEN [o EXCEPT !.authority_begin = o.p + 2, !.p = a.at, !.reads = a.reads]
        ELSE parse_authority_parts(
                 s, [o EXCEPT !.authority_begin = o.p + 2, !.p = a.at, !.reads = a.reads],
                 o.p + 2, a.at)

\* parse_from on one of the parts path, query and fragment: the part begins
\* at begin, runs to a character of stops and holds characters of legal
parse_part(s, o, begin, stops, legal) ==
    LET r == scan_to(s, begin, stops, legal, o.reads)
    IN  [begin |-> begin, end |-> IF r.ok THEN r.at ELSE nullptr, at |-> r.at,
         ok |-> r.ok, reads |-> r.reads]

\* parse_from from the path on
parse_path(s, o) ==
    LET r == parse_part(s, o, o.p, {"?", "#", "NUL"}, is_path_character)
    IN  IF o.returned_false THEN o
        ELSE IF ~(peek(s, o.p) = "/" \/ peek(s, o.p) \in is_path_character)
        THEN [o EXCEPT !.reads = o.reads \cup {o.p}]
        ELSE [o EXCEPT !.path_begin = r.begin, !.path_end = r.end, !.p = r.at,
                       !.reads = r.reads, !.returned_false = ~r.ok]

parse_query(s, o) ==
    LET r == parse_part(s, o, o.p + 1, {"#", "NUL"}, is_query_character)
    IN  IF o.returned_false THEN o
        ELSE IF peek(s, o.p) # "?" THEN [o EXCEPT !.reads = o.reads \cup {o.p}]
        ELSE [o EXCEPT !.query_begin = r.begin, !.query_end = r.end, !.p = r.at,
                       !.reads = r.reads \cup {o.p}, !.returned_false = ~r.ok]

parse_fragment(s, o) ==
    LET r == parse_part(s, o, o.p + 1, {"NUL"}, is_fragment_character)
    IN  IF o.returned_false THEN o
        ELSE IF peek(s, o.p) # "#" THEN [o EXCEPT !.reads = o.reads \cup {o.p}]
        ELSE [o EXCEPT !.fragment_begin = r.begin, !.fragment_end = r.end, !.p = r.at,
                       !.reads = r.reads \cup {o.p}, !.returned_false = ~r.ok]

\* inner_parse_out::parse_from(encoded) on a new inner_parse_out: its members
\* when the call has returned
parse_from_pointers(encoded) ==
    parse_fragment(encoded,
        parse_query(encoded,
            parse_path(encoded,
                parse_authority(encoded,
                    parse_scheme(encoded, inner_parse_out)))))

\* uri_components::uri_components()
uri_components ==
    [_scheme |-> <<>>, _host |-> <<>>, _userInfo |-> <<>>, _path |-> <<"/">>,
     _query |-> <<>>, _fragment |-> <<>>, _port |-> -1]

\* inner_parse_out::write_to: the components after the ranges o of the string
\* s are written to them
write_to(o, s, components) ==
    [_scheme   |-> IF o.scheme # <<>> THEN inplace_tolower(text(s, o.scheme)) ELSE <<>>,
     _userInfo |-> IF o.uinfo # <<>> THEN text(s, o.uinfo) ELSE components._userInfo,
     _host     |-> IF o.host # <<>> THEN inplace_tolower(text(s, o.host)) ELSE <<>>,
     _port     |-> o.port,
     _path     |-> IF o.path # <<>> THEN text(s, o.path) ELSE <<"/">>,
     _query    |-> IF o.query # <<>> THEN text(s, o.query) ELSE <<>>,
     _fragment |-> IF o.fragment # <<>> THEN text(s, o.fragment) ELSE <<>>]

\* whether uri::parse (and uri::init, which is the same text) throws
\* std::out_of_range: _url.substr(host_start, ...) with host_start past the end
parse_throws(_url) ==
    (IF Find(_url, <<":", "/", "/">>, 0) = NPOS
     THEN 2 ELSE Find(_url, <<":", "/", "/">>, 0) + 3) > Len(_url)

\* uri::parse() on the uri u (first draft): [raised, u after it].  The scheme
\* is assigned before substr throws.
uri_parse(u) ==
    IF parse_throws(u._url)
    THEN [raised |-> "std::out_of_range",
          u      |-> [u EXCEPT !._components._scheme = Substr(u._url, 0, NPOS)]]
    ELSE [raised |-> "none",
          u      |-> [u EXCEPT !._components._scheme = parse(u._url).scheme,
                               !._components._host   = parse(u._url).host,
                               !._components._port   = parse(u._url).port,
                               !._components._path   = parse(u._url).path]]

\* uri::init() on the uri u (second draft), whose port is a string
uri_init(u) ==
    LET r         == parse(u._url)
        host_port == Substr(u._url, Find(u._url, <<":", "/", "/">>, 0) + 3,
                            IF Find(u._url, <<"/">>, Find(u._url, <<":", "/", "/">>, 0) + 3) = NPOS
                            THEN NPOS
                            ELSE Find(u._url, <<"/">>, Find(u._url, <<":", "/", "/">>, 0) + 3)
                                     - (Find(u._url, <<":", "/", "/">>, 0) + 3))
    IN  IF parse_throws(u._url)
        THEN [raised |-> "std::out_of_range",
              u      |-> [u EXCEPT !._scheme = Substr(u._url, 0, NPOS)]]
        ELSE [raised |-> "none",
              u      |-> [u EXCEPT !._scheme = r.scheme,
                                   !._host   = r.host,
                                   !._port   = IF Find(host_port, <<":">>, 0) # NPOS
                                               THEN Substr(host_port,
                                                           Find(host_port, <<":">>, 0) + 1, NPOS)
                                               ELSE IF r.scheme = <<"h", "t", "t", "p", "s">>
                                               THEN <<"4", "4", "3">> ELSE <<"8", "0">>,
                                   !._path   = r.path]]

\* a uri of the first draft before its constructor body runs
uri_members == [draft |-> 1, _url |-> <<>>, _uri |-> <<>>, _components |-> uri_components]

\* a uri of the second draft with _url initialised
uri2_members(_url) ==
    [draft |-> 2, _url |-> _url, _scheme |-> <<>>, _host |-> <<>>, _path |-> <<>>,
     _port |-> <<>>]

\* uris given by their parts; an optional part is <<>> or <<its text>>
Shaped ==
    {
     [scheme |-> <<"h", "t", "t", "p">>, uinfo |-> <<>>, host |-> <<"h">>, port |-> <<>>,
      path |-> <<>>, query |-> <<>>, fragment |-> <<>>],
     [scheme |-> <<"h", "t", "t", "p", "s">>, uinfo |-> <<>>, host |-> <<"h">>, port |-> <<>>,
      path |-> <<>>, query |-> <<>>, fragment |-> <<>>],
     [scheme |-> <<"H", "T", "T", "P", "S">>, uinfo |-> <<>>, host |-> <<"H">>, port |-> <<>>,
      path |-> <<<<"/", "P">>>>, query |-> <<>>, fragment |-> <<>>],
     [scheme |-> <<"h", "t", "t", "p", "s">>, uinfo |-> <<>>, host |-> <<"e", "x", ".", "c">>, port |-> <<<<"8", "4">>>>,
      path |-> <<<<"/", "a", "/", "b">>>>, query |-> <<<<"q", "=", "1">>>>, fragment |-> <<<<"f">>>>],
     [scheme |-> <<"h", "t", "t", "p">>, uinfo |-> <<>>, host |-> <<"h">>, port |-> <<>>,
      path |-> <<>>, query |-> <<<<"q">>>>, fragment |-> <<>>],
     [scheme |-> <<"h", "t", "t", "p">>, uinfo |-> <<>>, host |-> <<"h">>, port |-> <<>>,
      path |-> <<<<"/", "p">>>>, query |-> <<>>, fragment |-> <<<<"f">>>>],
     [scheme |-> <<"h", "t", "t", "p">>, uinfo |-> <<<<"u", ":", "p">>>>, host |-> <<"h">>, port |-> <<<<"8">>>>,
      path |-> <<<<"/">>>>, query |-> <<>>, fragment |-> <<>>],
     [scheme |-> <<"h", "t", "t", "p">>, uinfo |-> <<>>, host |-> <<"[", ":", ":", "1", "]">>, port |-> <<<<"8">>>>,
      path |-> <<<<"/">>>>, query |-> <<>>, fragment |-> <<>>]
    }

\* the string scheme://[uinfo@]host[:port][path][?query][#fragment] of parts
compose(x) ==
    x.scheme \o <<":", "/", "/">>
        \o (IF x.uinfo = <<>> THEN <<>> ELSE x.uinfo[1] \o <<"@">>)
        \o x.host
        \o (IF x.port = <<>> THEN <<>> ELSE <<":">> \o x.port[1])
        \o (IF x.path = <<>> THEN <<>> ELSE x.path[1])
        \o (IF x.query = <<>> THEN <<>> ELSE <<"?">> \o x.query[1])
        \o (IF x.fragment = <<>> THEN <<>> ELSE <<"#">> \o x.fragment[1])

\* strings of other shapes: empty, too short, bad schemes, relative
\* references, a scheme without "//", a port that is no number, illegal
\* characters
Unshaped ==
    {
     <<>>,
     <<"a">>,
     <<"h", "t", "!", "t", "p", ":", "/", "/", "x">>,
     <<"1", "a", ":", "/", "/", "x">>,
     <<"h", "/", "p">>,
     <<"/", "p", "?", "q">>,
     <<"m", ":", "a">>,
     <<"h", "t", "t", "p", ":", "/", "/", "h", ":", "8", "x", "/">>,
     <<"h", "t", "t", "p", ":", "/", "/", "h", "/", "p", " ", "q">>,
     <<"h", "t", "t", "p", ":", "<", "x">>
    }

UriInputs == {compose(x) : x \in Shaped} \cup Unshaped

UriInit ==
    /\ input = <<>>
    /\ entry = "none"
    /\ obj = <<>>
    /\ prev = <<>>
    /\ raised = "none"
    /\ out = <<>>
    /\ threads = <<>>
    /\ frames = <<>>
    /\ OneCallIdle

\* The entry points of uri are run as one construction followed by one
\* assignment: both overwrite _url and every component parse() sets, so a
\* longer run of assignments meets no state these two steps do not.
\*
\* uri(const utility::char_t*) and uri(const utility::string_t&), which
\* delegates to it: a uri is constructed from the string s
Construct ==
    \E s \in UriInputs, e \in {"uri(const char_t*)", "uri(const string_t&)"} :
        LET r == uri_parse([uri_members EXCEPT !._url = s])
        IN  /\ entry = "none"
            /\ input' = s
            /\ entry' = e
            /\ prev' = obj
            /\ raised' = IF Len(s) = 0 THEN "uri_exception" ELSE r.raised
            /\ obj' = IF Len(s) = 0 \/ r.raised # "none" THEN <<>> ELSE <<r.u>>
            /\ out' = <<>>
            /\ UNCHANGED <<one_call, threads, frames>>

\* operator=(const utility::string_t&) and operator=(const utility::char_t*)
\* on a uri of the first draft
Assign ==
    /\ entry \in {"uri(const char_t*)", "uri(const string_t&)"}
    /\ obj # <<>>
    /\ obj[1].draft = 1
    /\ \E s \in UriInputs, e \in {"operator=(const string_t&)", "operator=(const char_t*)"} :
          LET r == uri_parse([obj[1] EXCEPT !._url = s])
          IN  /\ input' = s
              /\ entry' = e
              /\ prev' = obj
              /\ raised' = r.raised
              /\ obj' = <<r.u>>
              /\ out' = <<>>
              /\ UNCHANGED <<one_call, threads, frames>>

\* the second draft's uri(const std::string&) and uri(const char*)
Construct2 ==
    \E s \in UriInputs, e \in {"uri(const std::string&)", "uri(const char*)"} :
        LET r == uri_init(uri2_members(s))
        IN  /\ entry = "none"
            /\ input' = s
            /\ entry' = e
            /\ prev' = obj
            /\ raised' = IF Len(s) = 0 THEN "std::exception" ELSE r.raised
            /\ obj' = IF Len(s) = 0 \/ r.raised # "none" THEN <<>> ELSE <<r.u>>
            /\ out' = <<>>
            /\ UNCHANGED <<one_call, threads, frames>>

\* the second draft's operator=(const std::string&) and operator=(const char*)
Assign2 ==
    /\ entry \in {"uri(const std::string&)", "uri(const char*)"}
    /\ obj # <<>>
    /\ obj[1].draft = 2
    /\ \E s \in UriInputs, e \in {"operator=(const std::string&)", "operator=(const char*)"} :
          LET r == uri_init([obj[1] EXCEPT !._url = s])
          IN  /\ input' = s
              /\ entry' = e
              /\ prev' = obj
              /\ raised' = r.raised
              /\ obj' = <<r.u>>
              /\ out' = <<>>
              /\ UNCHANGED <<one_call, threads, frames>>

\* strings that take parse_from to the ends of its scans
EdgeInputs ==
    {<<"h", "t", "t", "p", ":", "/", "/", "h", ":">>,
     <<"h", "t", "t", "p", ":", "/", "/", ":", "8", "0">>,
     <<"h", "t", "t", "p", ":", "/", "/", "@">>,
     <<"/", "/">>,
     <<"h", "t", "t", "p", ":", "/", "/", "8", "0">>,
     <<":">>,
     <<"a", ":">>,
     <<"/">>,
     <<"h", "t", "t", "p", ":", "/", "/", "a", "@", "b", ":", "8", "0", "/">>,
     <<"h", "t", "t", "p", ":", "/", "/", "u", "@", ":", "8", "0">>,
     <<"h", "t", "t", "p", ":", "/", "/", "h", ":", "8", "@">>,
     <<"h", "t", "t", "p", ":", "/", "/", "a", ":", "1", "@", "b">>,
     <<"a", ":", "/">>,
     <<"h", "t", "t", "p", ":", "/">>,
     <<"h", "t", "t", "p", ":", "/", "/", "h", "?">>,
     <<"h", "t", "t", "p", ":", "/", "/", "h", "#">>,
     <<"?">>,
     <<"#">>,
     <<"h", "!", ":", "x">>,
     <<"h", "t", "t", "p", ":", "/", "/", "h", "/", "p", " ", "q">>,
     <<"h", "t", "t", "p", ":", "/", "/", "[", ":", ":", "1", "]", ":", "8", "/", "p", "?", "q", "#", "f">>,
     <<"/", "/", "h", ":", "8", "0">>}

\* inner_parse_out on the string s: parse_from, and on success write_to on
\* fresh components
ParseOut ==
    \E s \in UriInputs \cup EdgeInputs :
        /\ entry = "none"
        /\ input' = s
        /\ entry' = "parse_from"
        /\ raised' = "none"
        /\ out' = <<[ok         |-> parse_from(s).ok,
                     components |-> IF parse_from(s).ok
                                    THEN write_to(parse_from(s), s, uri_components)
                                    ELSE uri_components,
                     pointers   |-> parse_from_pointers(s)]>>
        /\ UNCHANGED <<obj, prev, one_call, threads, frames>>

UriNext ==
    \/ Construct
    \/ Assign
    \/ Construct2
    \/ Assign2
    \/ ParseOut

UriSpec == UriInit /\ [][UriNext]_vars

(***************************************************************************)
(* Properties of uri parsing.                                              *)
(***************************************************************************)
Constructors ==
    {"uri(const char_t*)", "uri(const string_t&)", "uri(const std::string&)",
     "uri(const char*)"}

Assignments ==
    {"operator=(const string_t&)", "operator=(const char_t*)",
     "operator=(const std::string&)", "operator=(const char*)"}

\* the last entry point made a uri of its string
succeeded ==
    /\ entry # "none"
    /\ raised = "none"
    /\ entry = "parse_from" => out[1].ok

\* the components the last entry point, having succeeded, gives its caller,
\* the port as text
seen ==
    IF entry = "parse_from"
    THEN [scheme   |-> out[1].components._scheme,
          uinfo    |-> out[1].components._userInfo,
          host     |-> out[1].components._host,
          port     |-> to_string(out[1].components._port),
          path     |-> out[1].components._path,
          query    |-> out[1].components._query,
          fragment |-> out[1].components._fragment]
    ELSE IF obj[1].draft = 1
    THEN [scheme   |-> obj[1]._components._scheme,
          uinfo    |-> obj[1]._components._userInfo,
          host     |-> obj[1]._components._host,
          port     |-> to_string(obj[1]._components._port),
          path     |-> obj[1]._components._path,
          query    |-> obj[1]._components._query,
          fragment |-> obj[1]._components._fragment]
    ELSE [scheme   |-> obj[1]._scheme,
          uinfo    |-> <<>>,
          host     |-> obj[1]._host,
          port     |-> obj[1]._port,
          path     |-> obj[1]._path,
          query    |-> <<>>,
          fragment |-> <<>>]

\* an optional part's text
part(o) == IF o = <<>> THEN <<>> ELSE o[1]

\* C13: a string scheme://host[:port]/path?query#fragment parses, and its
\* scheme and host come out in lower case, its explicit port, its path, its
\* query and its fragment as they stand in the string, the path holding
\* neither the query nor the fragment
C13_PartsOfInput ==
    \A x \in Shaped :
        (entry # "none" /\ input = compose(x) /\ x.uinfo = <<>>) =>
            /\ succeeded
            /\ seen.scheme = inplace_tolower(x.scheme)
            /\ seen.host = inplace_tolower(x.host)
            /\ x.port # <<>> => seen.port = x.port[1]
            /\ x.path # <<>> => seen.path = x.path[1]
            /\ seen.query = part(x.query)
            /\ seen.fragment = part(x.fragment)

\* C14: a parsed uri without an explicit port has port 443 when its scheme is
\* https and 80 otherwise, and one without a path has the path "/"
C14_Defaults ==
    \A x \in Shaped :
        (succeeded /\ input = compose(x)) =>
            /\ x.port = <<>> =>
                  seen.port = to_string(default_port(inplace_tolower(x.scheme)))
            /\ x.path = <<>> => seen.path = <<"/">>

\* the characters that are legal in some segment or delimit segments
legal_somewhere ==
    is_scheme_character \cup is_authority_character \cup is_path_character
        \cup is_query_character \cup is_fragment_character \cup {":", "/", "?", "#"}

\* C15: a string that parses has no character that is illegal everywhere
C15_IllegalCharacterFails ==
    succeeded => \A i \in 1..Len(input) : input[i] \in legal_somewhere

\* C16: a string with a ':' before its first '/' parses only when the text
\* before that ':' starts with a letter and goes on with letters, digits,
\* '+', '-' and '.'
C16_SchemeChecked ==
    (succeeded /\ At(input, find_first_of(input, 0, {"/", ":"})) = ":") =>
        /\ input[1] \in AlphaChars
        /\ \A i \in 2..find_first_of(input, 0, {":"}) : input[i] \in is_scheme_character

\* C17: of an authority uinfo@host:port the user info is the text before '@'
\* and no part of the host, the host and the port are split at the last ':'
\* outside brackets, and a bracketed host keeps its colons
C17_AuthoritySplit ==
    \A x \in Shaped :
        (succeeded /\ input = compose(x)) =>
            /\ seen.host = inplace_tolower(x.host)
            /\ x.port # <<>> => seen.port = x.port[1]
            /\ entry \notin {"uri(const std::string&)", "uri(const char*)",
                             "operator=(const std::string&)", "operator=(const char*)"}
                  => seen.uinfo = part(x.uinfo)

\* C18: a parsed string with no ':' before its first '/' has an empty scheme,
\* and one with a ':' before its first '/' has the text before it as scheme
C18_RelativeOrAbsolute ==
    succeeded =>
        IF At(input, find_first_of(input, 0, {"/", ":"})) = ":"
        THEN seen.scheme = inplace_tolower(Take(input, find_first_of(input, 0, {":"})))
        ELSE seen.scheme = <<>>

\* C19: a constructor that throws leaves no uri, and an assignment that
\* throws leaves the uri as it was before
C19_NoPartialUri ==
    raised # "none" =>
        /\ entry \in Constructors => obj = <<>>
        /\ entry \in Assignments => obj = prev

\* C20: every constructor and every assignment operator, given the empty
\* string, throws the error its draft has for it
C20_EmptyRejected ==
    (input = <<>> /\ entry \in Constructors \cup Assignments) =>
        raised = (IF entry \in {"uri(const char_t*)", "uri(const string_t&)",
                                "operator=(const string_t&)", "operator=(const char_t*)"}
                  THEN "uri_exception" ELSE "std::exception")

\* whether s is its own lower-case form
is_lower(s) == inplace_tolower(s) = s

\* C21: of a parsed uri the stored scheme and host are in lower case, and
\* the stored user info, path, query and fragment stand in the input letter
\* for letter
C21_CaseOfParts ==
    succeeded =>
        /\ is_lower(seen.scheme)
        /\ is_lower(seen.host)
        /\ Find(input, seen.uinfo, 0) # NPOS
        /\ seen.path = <<"/">> \/ Find(input, seen.path, 0) # NPOS
        /\ Find(input, seen.query, 0) # NPOS
        /\ Find(input, seen.fragment, 0) # NPOS

\* ------------------------------------------------------------------------
\* http_response.hpp: the status code and reason phrase of a response
\* ------------------------------------------------------------------------

\* how many setter calls are made on one response
MaxCalls == 2

\* status_code is an unsigned short
status_code_t(n) == n % 65536

\* _http_response(): the status code of a default-constructed response,
\* numeric_limits<uint16_t>::max
no_status_code == 65535

\* get_default_reason_phrase: the standard phrase of a status code, empty
\* for a code the table does not hold
get_default_reason_phrase(code) ==
    CASE code = 200 -> <<"O", "K">>
      [] code = 404 -> <<"N", "o", "t", " ", "F", "o", "u", "n", "d">>
      [] code = 500 -> <<"I", "n", "t", "e", "r", "n", "a", "l", " ", "S", "e", "r", "v", "e", "r",
                        " ", "E", "r", "r", "o", "r">>
      [] OTHER -> <<>>

\* _http_response(code): the members of a new response
_http_response(code) == [_status_code |-> status_code_t(code), _reason_phrase |-> <<>>]

\* _http_response::set_status_code
set_status_code(r, code) == [r EXCEPT !._status_code = status_code_t(code)]

\* _http_response::set_reason_phrase
set_reason_phrase(r, reason) == [r EXCEPT !._reason_phrase = reason]

\* http_response::reason_phrase(), which forwards to _http_response's
reason_phrase(r) == r._reason_phrase

\* the status line _http_response::to_string() starts its result with,
\* before the headers and body of http_msg_base::to_string()
to_string_status_line(r) ==
    <<"H", "T", "T", "P", "/", "1", ".", "1", " ">>
        \o to_string(r._status_code)
        \o <<" ">>
        \o (IF r._reason_phrase = <<>>
            THEN get_default_reason_phrase(r._status_code)
            ELSE r._reason_phrase)
        \o CRLF

\* the status codes and reason phrases the calls are made with
StatusCodes == {200, 404, 500, 299}
ReasonPhrases == {<<>>, <<"F", "i", "n", "e">>, <<"G", "o", "n", "e">>}

\* input holds the calls made on the response so far, obj the response
ResponseInit ==
    /\ input = <<>>
    /\ entry = "none"
    /\ obj = <<>>
    /\ prev = <<>>
    /\ raised = "none"
    /\ out = <<>>
    /\ threads = <<>>
    /\ frames = <<>>
    /\ OneCallIdle

\* http_response() and http_response(http::status_code)
ConstructResponse ==
    \E code \in StatusCodes \cup {no_status_code} :
        /\ entry = "none"
        /\ entry' = "http_response"
        /\ obj' = <<_http_response(code)>>
        /\ input' = <<[op |-> "http_response", arg |-> code]>>
        /\ UNCHANGED <<prev, raised, out, one_call, threads, frames>>

\* http_response::set_status_code
SetStatusCode ==
    \E code \in StatusCodes :
        /\ obj # <<>>
        /\ Len(input) <= MaxCalls
        /\ entry' = "set_status_code"
        /\ obj' = <<set_status_code(obj[1], code)>>
        /\ input' = Append(input, [op |-> "set_status_code", arg |-> code])
        /\ UNCHANGED <<prev, raised, out, one_call, threads, frames>>

\* http_response::set_reason_phrase
SetReasonPhrase ==
    \E reason \in ReasonPhrases :
        /\ obj # <<>>
        /\ Len(input) <= MaxCalls
        /\ entry' = "set_reason_phrase"
        /\ obj' = <<set_reason_phrase(obj[1], reason)>>
        /\ input' = Append(input, [op |-> "set_reason_phrase", arg |-> reason])
        /\ UNCHANGED <<prev, raised, out, one_call, threads, frames>>

ResponseNext ==
    \/ ConstructResponse
    \/ SetStatusCode
    \/ SetReasonPhrase

ResponseSpec == ResponseInit /\ [][ResponseNext]_vars

\* the argument of the last call of op among the calls made so far, <<>>
\* when there was none
last_arg(op) ==
    LET I == {i \in 1..Len(input) : input[i].op = op}
    IN  IF I = {} THEN <<>> ELSE input[CHOOSE i \in I : \A j \in I : j <= i].arg

\* the phrase the response is to report: the one last set when it is not
\* empty, and the standard phrase of the current status code otherwise
phrase_to_report ==
    IF last_arg("set_reason_phrase") # <<>>
    THEN last_arg("set_reason_phrase")
    ELSE get_default_reason_phrase(obj[1]._status_code)

\* C22: whatever calls of set_status_code and set_reason_phrase were made on
\* a response, reason_phrase() and the status line of to_string() report the
\* phrase set explicitly, and without one the standard phrase of the current
\* status code
C22_ReasonPhraseReported ==
    entry \in {"http_response", "set_status_code", "set_reason_phrase"} =>
        /\ reason_phrase(obj[1]) = phrase_to_report
        /\ to_string_status_line(obj[1]) =
               <<"H", "T", "T", "P", "/", "1", ".", "1", " ">>
                   \o to_string(obj[1]._status_code) \o <<" ">>
                   \o phrase_to_report \o CRLF

\* ------------------------------------------------------------------------
\* Further properties of fetch
\* ------------------------------------------------------------------------

\* C23: however the bytes of a peer that sends a status line, header lines,
\* an empty line and a body are split across the reads of the socket, a call
\* that returns has as headers the header lines sent and as body the bytes
\* sent after the empty line
C23_SegmentationIndependent ==
    (pc = "Done" /\ peer.status = StatusOK /\ peer.blank = CRLF) =>
        /\ result[1].headers = peer.fields
        /\ result[1].body = peer.body

\* ------------------------------------------------------------------------
\* http_msg.hpp: http_version
\* ------------------------------------------------------------------------

\* a run of digits without its leading zeros, one digit at least
RECURSIVE strip_zeros(_)
strip_zeros(ds) ==
    IF Len(ds) > 1 /\ Head(ds) = "0" THEN strip_zeros(Tail(ds)) ELSE ds

\* whether the number written a is at most the number written b
DigitsLeq(a, b) ==
    LET x == strip_zeros(a)
        y == strip_zeros(b)
    IN  Len(x) < Len(y) \/ (Len(x) = Len(y) /\ ~StrLess(y, x))

\* the value of a run of digits modulo m
RECURSIVE DecMod(_, _)
DecMod(ds, m) ==
    IF ds = <<>> THEN 0
    ELSE (10 * DecMod(Take(ds, Len(ds) - 1), m) + DigitVal(ds[Len(ds)])) % m

\* numeric_limits<unsigned int>::max(), written out
UINT_MAX == <<"4", "2", "9", "4", "9", "6", "7", "2", "9", "5">>

\* An unsigned int is held as its low eight bits and whether a higher bit is
\* set, which is all from_string makes of it.  unsigned_int(ds) is the one
\* written ds, at most UINT_MAX.
unsigned_int(ds) ==
    [low |-> DecMod(ds, 256), high |-> ~DigitsLeq(ds, <<"2", "5", "5">>)]

\* the unsigned int 0 - v for v written ds: 2^32 - v unless v is 0
negated(ds) ==
    IF DecMod(ds, 256) = 0 /\ DigitsLeq(ds, <<"0">>) THEN unsigned_int(<<"0">>)
    ELSE [low  |-> (256 - DecMod(ds, 256)) % 256,
          high |-> DigitsLeq(ds, <<"4", "2", "9", "4", "9", "6", "7", "0", "4", "0">>)]

\* std::getline(str, line, delim): takes the characters up to delim, which it
\* drops, or up to the end of the string (eofbit); failbit when the stream is
\* not good or nothing is left
getline_delim(st, delim) ==
    LET at == Find(st.buf, <<delim>>, 0)
    IN  IF ~good(st) THEN [st |-> [st EXCEPT !.fail = TRUE], val |-> <<>>]
        ELSE IF st.buf = <<>>
        THEN [st |-> [buf |-> <<>>, eof |-> TRUE, fail |-> TRUE], val |-> <<>>]
        ELSE IF at = NPOS
        THEN [st |-> [buf |-> <<>>, eof |-> TRUE, fail |-> FALSE], val |-> st.buf]
        ELSE [st |-> [buf |-> Drop(st.buf, at + 1), eof |-> FALSE, fail |-> FALSE],
              val |-> Take(st.buf, at)]

\* operator>>(unsigned int&): skips white space, takes an optional sign and
\* the digits after it.  failbit when there is no digit (the value is 0) or
\* the number is above UINT_MAX (the value is UINT_MAX); eofbit when the
\* digits ran to the end of the string.
extract_unsigned_int(st) ==
    LET rest == Drop(st.buf, SpanLen(st.buf, SpaceChars))
        sign == rest # <<>> /\ Head(rest) \in {"+", "-"}
        num  == IF sign THEN Tail(rest) ELSE rest
        n    == SpanLen(num, DigitChars)
        ds   == Take(num, n)
        over == n > 0 /\ ~DigitsLeq(ds, UINT_MAX)
    IN  IF ~good(st) THEN [st |-> [st EXCEPT !.fail = TRUE], val |-> unsigned_int(<<"0">>)]
        ELSE IF rest = <<>>
        THEN [st |-> [buf |-> <<>>, eof |-> TRUE, fail |-> TRUE], val |-> unsigned_int(<<"0">>)]
        ELSE [st  |-> [buf |-> Drop(num, n), eof |-> n = Len(num), fail |-> n = 0 \/ over],
              val |-> IF n = 0 THEN unsigned_int(<<"0">>)
                      ELSE IF over THEN unsigned_int(UINT_MAX)
                      ELSE IF Head(rest) = "-" THEN negated(ds)
                      ELSE unsigned_int(ds)]

\* operator>>(char&): skips white space and takes one character; failbit and
\* eofbit when none is left, the char then keeping its value '\0'
extract_char(st) ==
    LET rest == Drop(st.buf, SpanLen(st.buf, SpaceChars))
    IN  IF ~good(st) THEN [st |-> [st EXCEPT !.fail = TRUE], val |-> "NUL"]
        ELSE IF rest = <<>>
        THEN [st |-> [buf |-> <<>>, eof |-> TRUE, fail |-> TRUE], val |-> "NUL"]
        ELSE [st |-> [buf |-> Tail(rest), eof |-> FALSE, fail |-> FALSE], val |-> Head(rest)]

\* (uint8_t)x that gives 0 for an x above 255
uint8_t_or_zero(x) == IF x.high THEN 0 ELSE x.low

\* (uint8_t)x of an unsigned int x: its low eight bits
uint8_t(x) == x.low

\* http_version::from_string
from_string(http_version_string) ==
    LET http  == getline_delim([buf |-> http_version_string, eof |-> FALSE, fail |-> FALSE],
                               "/")
        major == extract_unsigned_int(http.st)
        dot   == extract_char(major.st)
        minor == extract_unsigned_int(dot.st)
    IN  IF /\ ~minor.st.fail
           /\ minor.st.eof
           /\ http.val = <<"H", "T", "T", "P">>
           /\ dot.val = "."
        THEN [major |-> uint8_t(major.val), minor |-> uint8_t(minor.val)]
        ELSE [major |-> 0, minor |-> 0]

\* http_version::to_utf8string
to_utf8string(v) ==
    <<"H", "T", "T", "P", "/">> \o to_string(v.major) \o <<".">> \o to_string(v.minor)

\* the numbers version strings are written with
VersionNumbers ==
    {<<"0">>,
     <<"1">>,
     <<"2">>,
     <<"1", "0">>,
     <<"2", "5", "5">>,
     <<"2", "5", "6">>,
     <<"2", "5", "7">>,
     <<"3", "0", "0">>,
     <<"0", "1">>,
     <<"4", "2", "9", "4", "9", "6", "7", "2", "9", "5">>,
     <<"4", "2", "9", "4", "9", "6", "7", "2", "9", "6">>,
     <<"4", "2", "9", "4", "9", "6", "7", "2", "9", "7">>,
     <<"0", "0", "0", "0", "0", "0", "0", "0", "0", "0", "1">>}

\* strings of the form "HTTP/" digits "." digits
VersionStrings ==
    {<<"H", "T", "T", "P", "/">> \o a \o <<".">> \o b : a, b \in VersionNumbers}

\* strings that are not of that form
OtherStrings ==
    {<<>>,
     <<"H", "T", "T", "P">>,
     <<"H", "T", "T", "P", "/">>,
     <<"H", "T", "T", "P", "/", "1">>,
     <<"H", "T", "T", "P", "/", "1", ".">>,
     <<"H", "T", "T", "P", "/", ".", "1">>,
     <<"H", "T", "T", "P", "/", "1", ".", "1", " ">>,
     <<"H", "T", "T", "P", "/", " ", "1", ".", "1">>,
     <<"H", "T", "T", "P", "/", "1", " ", ".", "1">>,
     <<"H", "T", "T", "P", "/", "1", ".", " ", "1">>,
     <<"H", "T", "T", "P", "/", "-", "1", ".", "1">>,
     <<"H", "T", "T", "P", "/", "+", "1", ".", "1">>,
     <<"H", "T", "T", "P", "/", "1", ".", "-", "1">>,
     <<"H", "T", "P", "/", "1", ".", "1">>,
     <<"h", "t", "t", "p", "/", "1", ".", "1">>,
     <<" ", "H", "T", "T", "P", "/", "1", ".", "1">>,
     <<"H", "T", "T", "P", "/", "1", ",", "1">>,
     <<"H", "T", "T", "P", "/", "1", ".", "1", ".", "1">>,
     <<"H", "T", "T", "P", "/", "1", ".", "1", "x">>,
     <<"H", "T", "T", "P", "/", "1", "x", "1">>,
     <<"H", "T", "T", "P", "/", "a", ".", "b">>,
     <<"H", "T", "T", "P", "/", "1", "\n", ".", "1">>,
     <<"H", "T", "T", "P", "/", "/", "1", ".", "1">>,
     <<"/", "1", ".", "1">>}

\* the versions to_utf8string is called on: major and minor are uint8_t, and
\* each takes every value there is while the other is the least, a middle or
\* the greatest one
Versions ==
    [major : 0..255, minor : {0, 10, 255}] \cup [major : {0, 10, 255}, minor : 0..255]

\* input holds the string given to from_string, obj the version
\* to_utf8string was called on, out what from_string returned
VersionInit ==
    /\ input = <<>>
    /\ entry = "none"
    /\ obj = <<>>
    /\ prev = <<>>
    /\ raised = "none"
    /\ out = <<>>
    /\ threads = <<>>
    /\ frames = <<>>
    /\ OneCallIdle

\* http_version::from_string on a string
FromString ==
    \E s \in VersionStrings \cup OtherStrings :
        /\ entry = "none"
        /\ input' = s
        /\ entry' = "from_string"
        /\ out' = <<from_string(s)>>
        /\ UNCHANGED <<obj, prev, raised, one_call, threads, frames>>

\* v.to_utf8string() for a version v
ToUtf8String ==
    \E v \in Versions :
        /\ entry = "none"
        /\ obj' = <<v>>
        /\ input' = to_utf8string(v)
        /\ entry' = "to_utf8string"
        /\ UNCHANGED <<out, prev, raised, one_call, threads, frames>>

\* http_version::from_string on what to_utf8string returned
FromUtf8String ==
    /\ entry = "to_utf8string"
    /\ entry' = "from_string"
    /\ out' = <<from_string(input)>>
    /\ UNCHANGED <<input, obj, prev, raised, one_call, threads, frames>>

VersionNext ==
    \/ FromString
    \/ ToUtf8String
    \/ FromUtf8String

VersionSpec == VersionInit /\ [][VersionNext]_vars

\* Properties of http_version

\* of a string s, the digits after "HTTP/" and the digits after the "." that
\* follows them
digits_a(s) == Take(Drop(s, 5), SpanLen(Drop(s, 5), DigitChars))
digits_b(s) == Drop(s, 5 + Len(digits_a(s)) + 1)

\* whether s has the form "HTTP/" digits "." digits
version_form(s) ==
    /\ Find(s, <<"H", "T", "T", "P", "/">>, 0) = 0
    /\ digits_a(s) # <<>>
    /\ At(s, 5 + Len(digits_a(s))) = "."
    /\ digits_b(s) # <<>>
    /\ SpanLen(digits_b(s), DigitChars) = Len(digits_b(s))

\* whether the number written ds fits a uint8_t
fits_uint8(ds) == DigitsLeq(ds, <<"2", "5", "5">>)

\* C24: from_string returns {major, minor} for a string "HTTP/" digits "."
\* digits (with numbers a uint8_t holds) and {0, 0} for every string not of
\* that form, and it returns v for the string to_utf8string makes of a
\* version v
C24_FromString ==
    entry = "from_string" =>
        /\ (/\ version_form(input)
            /\ fits_uint8(digits_a(input))
            /\ fits_uint8(digits_b(input)))
               => out[1] = [major |-> DecMod(digits_a(input), 256),
                            minor |-> DecMod(digits_b(input), 256)]
        /\ ~version_form(input) => out[1] = [major |-> 0, minor |-> 0]
        /\ obj # <<>> => out[1] = obj[1]

\* the version whose numbers are those of the string s modulo 256
modulo_256(s) ==
    [major |-> DecMod(digits_a(s), 256), minor |-> DecMod(digits_b(s), 256)]

\* whether the number written ds fits an unsigned int
fits_unsigned_int(ds) == DigitsLeq(ds, UINT_MAX)

\* C28: for a string "HTTP/a.b" whose a and b are at most 4294967295,
\* from_string returns {a mod 256, b mod 256}, also when a or b is above 255,
\* which is the version of the different string written with the reduced
\* numbers; with a or b above 4294967295 it returns {0, 0}
C28_Modulo256 ==
    (entry = "from_string" /\ version_form(input)) =>
        IF fits_unsigned_int(digits_a(input)) /\ fits_unsigned_int(digits_b(input))
        THEN /\ out[1] = modulo_256(input)
             /\ out[1] = from_string(to_utf8string(modulo_256(input)))
        ELSE out[1] = [major |-> 0, minor |-> 0]

\* from_string was given "HTTP/257.1" and returned {1, 1}
C28_Witness ==
    /\ entry = "from_string"
    /\ input = <<"H", "T", "T", "P", "/", "2", "5", "7", ".", "1">>
    /\ out = <<[major |-> 1, minor |-> 1]>>

\* C28 as stated: for every string "HTTP/a.b" with a or b above 255
\* from_string returns {a mod 256, b mod 256}
C28_Modulo256Unbounded ==
    (/\ entry = "from_string"
     /\ version_form(input)
     /\ ~(fits_uint8(digits_a(input)) /\ fits_uint8(digits_b(input))))
        => out[1] = modulo_256(input)

\* ------------------------------------------------------------------------
\* http_server: the table of route handlers
\* ------------------------------------------------------------------------

\* how many calls are made on one http_server
MaxRegistrations == 3

\* a std::map without entries
empty_map == [k \in {} |-> <<>>]

\* m[key] = value for a std::map m: the entry of key is made or overwritten
map_assign(m, key, value) ==
    [k \in DOMAIN m \cup {key} |-> IF k = key THEN value ELSE m[k]]

\* m[key] for a std::map m of maps: the entry, an empty map when key has none
map_subscript(m, key) == IF key \in DOMAIN m THEN m[key] ELSE empty_map

\* routes_[method][route] = handler with every other route of method dropped
routes_replace(routes_, method, route, handler) ==
    map_assign(routes_, method, map_assign(empty_map, route, handler))

\* routes_[method][route] = std::move(handler)
routes_assign(routes_, method, route, handler) ==
    map_assign(routes_, method, map_assign(map_subscript(routes_, method), route, handler))

\* the routes and handlers the registrations are made with
Routes == {"/", "/a"}
Handlers == {"f", "g"}

\* obj holds routes_, prev the routes_ before the last call, input the calls
\* made so far
ServerInit ==
    /\ input = <<>>
    /\ entry = "none"
    /\ obj = <<empty_map>>
    /\ prev = <<empty_map>>
    /\ raised = "none"
    /\ out = <<>>
    /\ threads = <<>>
    /\ frames = <<>>
    /\ OneCallIdle

\* http_server::get
get ==
    \E route \in Routes, handler \in Handlers :
        /\ Len(input) < MaxRegistrations
        /\ entry' = "get"
        /\ input' = Append(input, [op |-> "get", method |-> "GET", route |-> route,
                                   handler |-> handler])
        /\ prev' = obj
        /\ obj' = <<routes_assign(obj[1], "GET", route, handler)>>
        /\ UNCHANGED <<raised, out, one_call, threads, frames>>

\* http_server::post
post ==
    \E route \in Routes, handler \in Handlers :
        /\ Len(input) < MaxRegistrations
        /\ entry' = "post"
        /\ input' = Append(input, [op |-> "post", method |-> "POST", route |-> route,
                                   handler |-> handler])
        /\ prev' = obj
        /\ obj' = <<routes_assign(obj[1], "POST", route, handler)>>
        /\ UNCHANGED <<raised, out, one_call, threads, frames>>

\* http_server::put
put ==
    \E route \in Routes, handler \in Handlers :
        /\ Len(input) < MaxRegistrations
        /\ entry' = "put"
        /\ input' = Append(input, [op |-> "put", method |-> "PUT", route |-> route,
                                   handler |-> handler])
        /\ prev' = obj
        /\ obj' = <<routes_assign(obj[1], "PUT", route, handler)>>
        /\ UNCHANGED <<raised, out, one_call, threads, frames>>

\* http_server::delete_
delete_ ==
    \E route \in Routes, handler \in Handlers :
        /\ Len(input) < MaxRegistrations
        /\ entry' = "delete_"
        /\ input' = Append(input, [op |-> "delete_", method |-> "DELETE", route |-> route,
                                   handler |-> handler])
        /\ prev' = obj
        /\ obj' = <<routes_assign(obj[1], "DELETE", route, handler)>>
        /\ UNCHANGED <<raised, out, one_call, threads, frames>>

\* http_server::run, which makes an io_context and returns
run ==
    /\ Len(input) < MaxRegistrations
    /\ entry' = "run"
    /\ input' = Append(input, [op |-> "run", method |-> "", route |-> "", handler |-> ""])
    /\ prev' = obj
    /\ UNCHANGED <<obj, raised, out, one_call, threads, frames>>

ServerNext ==
    \/ get
    \/ post
    \/ put
    \/ delete_
    \/ run

ServerSpec == ServerInit /\ [][ServerNext]_vars

\* Properties of http_server

\* the handler routes_ holds for method and route, <<>> when it holds none
stored(routes_, method, route) ==
    IF method \in DOMAIN routes_ /\ route \in DOMAIN routes_[method]
    THEN <<routes_[method][route]>>
    ELSE <<>>

\* the handler of the last registration for method and route among the calls
\* made so far, <<>> when there was none
last_registered(method, route) ==
    LET I == {i \in 1..Len(input) : input[i].method = method /\ input[i].route = route}
    IN  IF I = {} THEN <<>>
        ELSE <<input[CHOOSE i \in I : \A j \in I : j <= i].handler>>

ServerMethods == {"GET", "POST", "PUT", "DELETE"}

\* C29: after any calls of get, post, put and delete_ the handler stored for
\* a method and route is that of the last registration for the pair, and the
\* last call left the entry of every pair it did not register as it was
C29_LastRegistrationWins ==
    entry \in {"get", "post", "put", "delete_", "run"} =>
        \A method \in ServerMethods, route \in Routes :
            /\ stored(obj[1], method, route) = last_registered(method, route)
            /\ (entry = "run" \/ input[Len(input)].method # method
                    \/ input[Len(input)].route # route)
                   => stored(obj[1], method, route) = stored(prev[1], method, route)

\* a route of GET was registered twice with different handlers, another
\* route before that, and routes_ holds the second handler and the other route
C29_Witness ==
    /\ Len(input) = 3
    /\ input[1] = [op |-> "get", method |-> "GET", route |-> "/a", handler |-> "g"]
    /\ input[2] = [op |-> "get", method |-> "GET", route |-> "/", handler |-> "f"]
    /\ input[3] = [op |-> "get", method |-> "GET", route |-> "/", handler |-> "g"]
    /\ stored(obj[1], "GET", "/") = <<"g">>
    /\ stored(obj[1], "GET", "/a") = <<"g">>

\* ------------------------------------------------------------------------
\* details::trim_if
\* ------------------------------------------------------------------------

\* the length of the longest string trim_if is called on
MaxTrimLen == 4

\* A predicate is the set of characters it accepts; positions are counted
\* from 0, and a scan gives the position it stops at with the positions it
\* read, among them -1 or size() if it leaves the string.

\* for (;;) { ++first; if (first == last) ...; if (!test(*first)) break; }
\* from first: the position of the first character after first that fails
\* test, size() when there is none
RECURSIVE scan_front(_, _, _, _)
scan_front(str, test, first, reads) ==
    IF first + 1 = Len(str) THEN [at |-> first + 1, reads |-> reads]
    ELSE IF str[first + 2] \in test
    THEN scan_front(str, test, first + 1, reads \cup {first + 1})
    ELSE [at |-> first + 1, reads |-> reads \cup {first + 1}]

\* do { --last; } while (test(*last)); from last: the position of the last
\* character before last that fails test
RECURSIVE scan_back(_, _, _, _)
scan_back(str, test, last, reads) ==
    IF last - 1 < 0 THEN [at |-> last - 1, reads |-> reads \cup {last - 1}]
    ELSE IF str[last] \in test
    THEN scan_back(str, test, last - 1, reads \cup {last - 1})
    ELSE [at |-> last - 1, reads |-> reads \cup {last - 1}]

\* a trim_if that removes at the front only
trim_front_if(str, test) ==
    [str |-> Drop(str, SpanLen(str, test)), reads |-> 0 .. (Len(str) - 1)]

\* details::trim_if(str, test): the string it leaves in str, and the
\* positions of str it read
trim_if(str, test) ==
    IF str = <<>> THEN [str |-> str, reads |-> {}]
    ELSE IF str[1] \in test
    THEN LET first == scan_front(str, test, 0, {0})
             last  == scan_back(str, test, Len(str), first.reads)
         IN  IF first.at = Len(str)
             THEN [str |-> <<>>, reads |-> first.reads]
             ELSE [str |-> SubSeq(str, first.at + 1, last.at + 1), reads |-> last.reads]
    ELSE IF str[Len(str)] \notin test
    THEN [str |-> str, reads |-> {0, Len(str) - 1}]
    ELSE LET last == scan_back(str, test, Len(str) - 1, {0, Len(str) - 1})
         IN  [str |-> Take(str, last.at + 1), reads |-> last.reads]

\* the characters of the strings, and the strings
TrimChars == {" ", "a", "NUL"}
TrimStrings == UNION {[1..n -> TrimChars] : n \in 0..MaxTrimLen}

\* the predicates: that of trim_whitespace, that of trim_nulls, one that
\* holds of every character and one that holds of none
TrimTests == {SpaceChars, {"NUL"}, TrimChars, {}}

\* input holds the string trim_if is called on, obj the predicate, out what
\* the call left, prev what the call before it left
TrimInit ==
    /\ input = <<>>
    /\ entry = "none"
    /\ obj = <<>>
    /\ prev = <<>>
    /\ raised = "none"
    /\ out = <<>>
    /\ threads = <<>>
    /\ frames = <<>>
    /\ OneCallIdle

\* trim_if(str, test) on a string
TrimIf ==
    \E str \in TrimStrings, test \in TrimTests :
        /\ entry = "none"
        /\ entry' = "trim_if"
        /\ input' = str
        /\ obj' = <<test>>
        /\ out' = <<trim_if(str, test)>>
        /\ UNCHANGED <<prev, raised, one_call, threads, frames>>

\* trim_if(str, test) once more on the string the first call left
TrimAgain ==
    /\ entry = "trim_if"
    /\ entry' = "trim_if again"
    /\ prev' = out
    /\ out' = <<trim_if(out[1].str, obj[1])>>
    /\ UNCHANGED <<input, obj, raised, one_call, threads, frames>>

TrimNext ==
    \/ TrimIf
    \/ TrimAgain

TrimSpec == TrimInit /\ [][TrimNext]_vars

\* Properties of trim_if

\* the length of the longest suffix of s made of characters of cs
SuffixLen(s, cs) ==
    LET stops == {i \in 1..Len(s) : s[i] \notin cs}
    IN  IF stops = {} THEN Len(s)
        ELSE Len(s) - (CHOOSE i \in stops : \A j \in stops : j <= i)

\* s without its longest prefix and its longest suffix of characters of cs
trimmed(s, cs) ==
    IF SpanLen(s, cs) = Len(s) THEN <<>>
    ELSE SubSeq(s, SpanLen(s, cs) + 1, Len(s) - SuffixLen(s, cs))

\* C30: trim_if leaves the string without its longest prefix and its longest
\* suffix of characters that satisfy test, empty when all do, the characters
\* between them as they were; it reads no position outside the string; and
\* a second call leaves what the first left
C30_TrimIf ==
    /\ entry = "trim_if" =>
          /\ out[1].str = trimmed(input, obj[1])
          /\ out[1].reads \subseteq 0 .. (Len(input) - 1)
    /\ entry = "trim_if again" =>
          /\ out[1].str = prev[1].str
          /\ out[1].reads \subseteq 0 .. (Len(prev[1].str) - 1)

\* trim_whitespace on " a  " left "a", and a second call left it so
C30_Witness ==
    /\ entry = "trim_if again"
    /\ input = <<" ", "a", " ", " ">>
    /\ obj = <<SpaceChars>>
    /\ prev[1].str = <<"a">>
    /\ out[1].str = <<"a">>

\* ------------------------------------------------------------------------
\* Further properties of fetch: failures and genuine answers
\* ------------------------------------------------------------------------

\* the messages of the exceptions fetch's steps throw
failure_messages == {errors[n].what : n \in DOMAIN errors}

\* a server that answers status 500, no headers and the body message
answers_500(message) ==
    [status |-> Status500, fields |-> <<>>, blank |-> CRLF, body |-> message]

\* the value fetch returns on success against the peer p whose bytes come
\* with one read
returns_whole(p) == alone(p, Len(stream(p))).response

\* C25: a call that failed, at whatever step, returned status_code 500,
\* empty headers and the error's message as body, which is the value a call
\* returns on success against a server that answers status 500, no headers
\* and that message as body
C25_FailureLooksLike500 ==
    pc = "Failed" =>
        /\ result[1].status_code = 500
        /\ result[1].headers = <<>>
        /\ result[1].body \in failure_messages
        /\ ~alone(answers_500(result[1].body), Len(stream(answers_500(result[1].body)))).invalid
        /\ result[1] = returns_whole(answers_500(result[1].body))

\* a call that succeeded against a server answering 500 with the body
\* "Invalid response", and returned the value a call returns that failed on a
\* bad status line
C25_Witness ==
    /\ pc = "Done"
    /\ peer = answers_500(InvalidResponse)
    /\ result[1] = catch_response(runtime_error(InvalidResponse))

\* fetch runs its steps on the caller's thread, one blocking operation after
\* the other.  LiveSpec takes every blocking operation to complete: a step
\* that can be taken is taken.  The peers of the model send their bytes and
\* close, or the connection errors.
LiveInit == Init /\ url = DefaultURL /\ options = default_options

LiveSpec == LiveInit /\ [][Next]_vars /\ WF_vars(Next)

\* C26: with every blocking operation completing and the peer closing or the
\* connection failing, the call returns; the body loop is left only by a read
\* that reports end of file, with which the call returns its response, or
\* another error, with which it fails, and a read that delivers bytes does
\* not leave it; no step ends a read by a timeout
C26_EventuallyReturns ==
    /\ <>(pc \in {"Done", "Failed"} /\ Len(result) = 1)
    /\ [][(pc = "ReadingBody" /\ pc' # "ReadingBody") =>
             \/ wire = <<>> /\ wire' = wire /\ body' = body /\ pc' = "Done"
             \/ wire' = wire /\ body' = body /\ pc' = "Failed"
                    /\ result'[1].body = ConnectionReset]_vars
    /\ [][(pc = "ReadingBody" /\ wire' # wire) =>
             pc' = "ReadingBody" /\ body' \o wire' = body \o wire]_vars

\* a call that returned after its body loop took the body in two reads and
\* was ended by the end of file
C26_Witness ==
    /\ pc = "Done"
    /\ came_from = "ReadingBody"
    /\ wire = <<>>
    /\ peer.body = <<"h", "i">>
    /\ result[1].body = <<"h", "i">>
    /\ result[1].headers = HeaderAB

\* ------------------------------------------------------------------------
\* Properties of parse_from's pointers
\* ------------------------------------------------------------------------

\* the begin/end pairs of an inner_parse_out o with both ends set
pairs_set(o) ==
    {pr \in {<<o.scheme_begin, o.scheme_end>>, <<o.uinfo_begin, o.uinfo_end>>,
             <<o.host_begin, o.host_end>>, <<o.path_begin, o.path_end>>,
             <<o.query_begin, o.query_end>>, <<o.fragment_begin, o.fragment_end>>} :
        pr[1] # nullptr /\ pr[2] # nullptr}

\* a pair of pointers as a range, <<>> when they are not set
range(b, e) == IF b = nullptr \/ e = nullptr THEN <<>> ELSE <<b, e>>

\* C27: parse_from returns for every string, having read only offsets from
\* the first character to the terminator; its backward scan for the port
\* reads nothing before authority_begin and its scan for the user info
\* nothing past host_end; every pair of pointers it has set has its begin at
\* or before its end; and the parts it marks on success are those of
\* parse_from as modelled above
C27_ParseFromInBounds ==
    entry = "parse_from" =>
        LET o == out[1].pointers
        IN  /\ o.reads \subseteq 0 .. Len(input)
            /\ 0 \in o.reads
            /\ \A i \in o.port_reads : o.authority_begin <= i /\ i < Len(input)
            /\ \A i \in o.uinfo_reads : o.authority_begin <= i /\ i <= o.host_end
            /\ \A pr \in pairs_set(o) : 0 <= pr[1] /\ pr[1] <= pr[2] /\ pr[2] <= Len(input)
            /\ o.returned_false = ~out[1].ok
            /\ out[1].ok =>
                  /\ range(o.scheme_begin, o.scheme_end) = parse_from(input).scheme
                  /\ range(o.uinfo_begin, o.uinfo_end) = parse_from(input).uinfo
                  /\ range(o.host_begin, o.host_end) = parse_from(input).host
                  /\ o.port = parse_from(input).port
                  /\ range(o.path_begin, o.path_end) = parse_from(input).path
                  /\ range(o.query_begin, o.query_end) = parse_from(input).query
                  /\ range(o.fragment_begin, o.fragment_end) = parse_from(input).fragment

\* parse_from on "http://80": the backward scan for the port ran over the
\* whole authority and stopped at authority_begin, and the host is "80"
C27_Witness ==
    /\ entry = "parse_from"
    /\ input = <<"h", "t", "t", "p", ":", "/", "/", "8", "0">>
    /\ out[1].pointers.port_reads = {7, 8}
    /\ out[1].pointers.host_begin = 7
    /\ out[1].pointers.host_end = 9
    /\ 9 \in out[1].pointers.reads

====
